---- MODULE Spec2Model ----
(***************************************************************************)
(* Sentry OAuth example server: the session store, the requests in flight  *)
(* (each working on the copy of the session it loaded), the OAuth callback *)
(* steps and the in-memory user directory with its three indexes.          *)
(***************************************************************************)
EXTENDS Integers, Sequences, FiniteSets, TLC

\* ---------------------------------------------------------------- bounds
\* requests received in a run, state values issued
MaxRequests == 4
MaxStates == 2
\* entries of a list the provider answers with, issues handed to the level count
MaxItems == 2
MaxIssues == 3

\* ------------------------------------------------------------ value sets
Browsers == {"b1", "b2"}
\* a request that awaits something occupies one of two slots
Slots == {1, 2}
StateIds == 1..MaxStates
\* JS undefined for the numeric fields (oauthState, userId, query state)
Undef == 0
\* a state value no beginLogin ever issued
Forged == -1
\* JS undefined for the string fields (sentryId, query code)
NoStr == ""
Codes == {"c1"}
Kinds == {"login", "callback", "logout", "me", "orgs", "protected", "stats"}

\* provider profiles, as normalized by getUserInfo / completeOAuthFlow
Profiles ==
  { [id |-> "u1", email |-> "a@x.com", name |-> "A", username |-> "a", avatar |-> "av1"],
    [id |-> "u1", email |-> "b@x.com", name |-> "A2", username |-> "a", avatar |-> "av1"],
    [id |-> "u2", email |-> "a@x.com", name |-> "B", username |-> "b", avatar |-> "av2"] }
NoProfile == [id |-> "", email |-> "", name |-> "", username |-> "", avatar |-> ""]
ProviderIds == {p.id : p \in Profiles}
Emails == {p.email : p \in Profiles}

\* ------------------------------------------------------------- sessions
EmptySession == [oauthState |-> Undef, userId |-> Undef, sentryId |-> NoStr]

\* store.get + inflate / generate: each request gets its own copy
LoadSession(st, b) == IF st[b].present THEN st[b].data ELSE EmptySession

\* res.end hook of the session middleware (resave: false,
\* saveUninitialized: false): a destroyed session is not written back, and
\* a session is written back whole exactly when the handler modified it
SaveSession(st, b, sess, orig, destroyed) ==
  IF destroyed \/ sess = orig THEN st
  ELSE [st EXCEPT ![b] = [present |-> TRUE, data |-> sess]]

\* req.session.destroy()
DestroySession(st, b) == [st EXCEPT ![b] = [present |-> FALSE, data |-> EmptySession]]

\* any session passes
requireAuthAnySession(sess) == TRUE

\* requireAuth: req.session && req.session.userId
requireAuth(sess) == sess.userId # Undef

\* the comparison with the pending state left out
CsrfValidAnyState(state, sess) == state # Undef

\* line 126 negated: state && state === req.session.oauthState
CsrfValid(state, sess) == state # Undef /\ state = sess.oauthState

\* ------------------------------------------------------- user directory
NullUser ==
  [id |-> 0, sentry_id |-> "", email |-> "", name |-> "", username |-> "",
   avatar_url |-> "", access_token |-> 0, created_at |-> 0, updated_at |-> 0]

MapGet(m, k) == IF k \in DOMAIN m THEN m[k] ELSE NullUser
MapSet(m, k, v) == [x \in (DOMAIN m) \cup {k} |-> IF x = k THEN v ELSE m[x]]
MapDelete(m, k) == [x \in (DOMAIN m) \ {k} |-> m[x]]
EmptyMap == [x \in {} |-> NullUser]

SimpleUserStore ==
  [users |-> EmptyMap, usersBySentryId |-> EmptyMap, usersByEmail |-> EmptyMap, nextId |-> 1]

findUserBySentryId(db, sentryId) == MapGet(db.usersBySentryId, sentryId)
findUserByEmail(db, email) == MapGet(db.usersByEmail, email)
findUserById(db, id) == MapGet(db.users, id)

\* sentryUser.avatar?.avatarUrl || sentryUser.avatar, the avatar being a string
AvatarUrl(sentryUser) == sentryUser.avatar

NewUser(db, sentryUser, accessToken, t) ==
  [id |-> db.nextId, sentry_id |-> sentryUser.id, email |-> sentryUser.email,
   name |-> sentryUser.name, username |-> sentryUser.username,
   avatar_url |-> AvatarUrl(sentryUser), access_token |-> accessToken,
   created_at |-> t, updated_at |-> t]

\* the counter is read but not advanced
createUserKeepsNextId(db, sentryUser, accessToken, t) ==
  LET user == NewUser(db, sentryUser, accessToken, t) IN
  [users |-> MapSet(db.users, user.id, user),
   usersBySentryId |-> MapSet(db.usersBySentryId, user.sentry_id, user),
   usersByEmail |-> MapSet(db.usersByEmail, user.email, user),
   nextId |-> db.nextId]

createUser(db, sentryUser, accessToken, t) ==
  LET user == NewUser(db, sentryUser, accessToken, t) IN
  [users |-> MapSet(db.users, user.id, user),
   usersBySentryId |-> MapSet(db.usersBySentryId, user.sentry_id, user),
   usersByEmail |-> MapSet(db.usersByEmail, user.email, user),
   nextId |-> db.nextId + 1]

\* the stored email is left as it was
UpdatedUserKeepsEmail(db, sentryUser, accessToken, t) ==
  [findUserBySentryId(db, sentryUser.id) EXCEPT
     !.name = sentryUser.name,
     !.username = sentryUser.username, !.avatar_url = AvatarUrl(sentryUser),
     !.access_token = accessToken, !.updated_at = t]

UpdatedUser(db, sentryUser, accessToken, t) ==
  [findUserBySentryId(db, sentryUser.id) EXCEPT
     !.email = sentryUser.email, !.name = sentryUser.name,
     !.username = sentryUser.username, !.avatar_url = AvatarUrl(sentryUser),
     !.access_token = accessToken, !.updated_at = t]

\* a record is added instead of replaced
updateUserAddsRecord(db, sentryUser, accessToken, t) ==
  createUser(db, sentryUser, accessToken, t)

updateUser(db, sentryUser, accessToken, t) ==
  LET existingUser == findUserBySentryId(db, sentryUser.id)
      updatedUser == UpdatedUser(db, sentryUser, accessToken, t) IN
  [users |-> MapSet(db.users, updatedUser.id, updatedUser),
   usersBySentryId |-> MapSet(db.usersBySentryId, updatedUser.sentry_id, updatedUser),
   usersByEmail |->
     IF existingUser.email # updatedUser.email
     THEN MapSet(MapDelete(db.usersByEmail, existingUser.email), updatedUser.email, updatedUser)
     ELSE db.usersByEmail,
   nextId |-> db.nextId]

\* getStats: the count and, per record, only these five fields
getStats(db) ==
  [totalUsers |-> Cardinality(DOMAIN db.users),
   users |-> {[id |-> db.users[i].id, sentry_id |-> db.users[i].sentry_id,
               email |-> db.users[i].email, name |-> db.users[i].name,
               created_at |-> db.users[i].created_at] : i \in DOMAIN db.users}]

\* -------------------------------------------------------------- strings
\* String.prototype.includes
Includes(s, t) == \E i \in 1..(Len(s) - Len(t) + 1) : SubSeq(s, i, i + Len(t) - 1) = t

\* s.split('@')[0]
SplitAtFirst(s) ==
  LET ats == {i \in 1..Len(s) : SubSeq(s, i, i) = "@"} IN
  IF ats = {} THEN s
  ELSE SubSeq(s, 1, (CHOOSE i \in ats : \A j \in ats : i <= j) - 1)

\* errorText.substring(0, 200)
ErrorTextLimit == 200
Truncate(s) == IF Len(s) <= ErrorTextLimit THEN s ELSE SubSeq(s, 1, ErrorTextLimit)

\* encodeURIComponent on the characters the messages are made of: letters,
\* digits and - _ . ! ~ * ' ( ) stay, every other character is escaped
EncodeChar(c) ==
  CASE c = " " -> "%20" [] c = ":" -> "%3A" [] c = "/" -> "%2F" [] c = "@" -> "%40"
    [] c = "," -> "%2C" [] c = "=" -> "%3D" [] c = "?" -> "%3F" [] c = "&" -> "%26"
    [] OTHER -> c

RECURSIVE encodeURIComponent(_)
encodeURIComponent(s) ==
  IF s = "" THEN ""
  ELSE EncodeChar(SubSeq(s, 1, 1)) \o encodeURIComponent(SubSeq(s, 2, Len(s)))

\* ------------------------------------------------------- OAuth provider
\* the provider's base URL and the six profile endpoints, in the order tried
BaseUrl == "https://sentry.io"
possibleEndpoints ==
  << BaseUrl \o "/oauth/userinfo", BaseUrl \o "/userinfo", BaseUrl \o "/oauth/userinfo/",
     BaseUrl \o "/userinfo/", BaseUrl \o "/api/0/user/", BaseUrl \o "/api/0/users/me/" >>

\* a JSON object with the profile fields; a missing field is the empty string
\* and NoProfile is a missing object
Truthy(obj) == obj # NoProfile

\* the objects a provider sends: complete with or without a name, or lacking
\* the email or the id
RawComplete ==
  { [id |-> "u1", email |-> "a@x.com", name |-> "A", username |-> "a", avatar |-> "av1"],
    [id |-> "42", email |-> "a@b.com", name |-> "", username |-> "", avatar |-> ""],
    [id |-> "42", email |-> "a@b.com", name |-> "", username |-> "ab", avatar |-> ""] }
RawIncomplete ==
  { [id |-> "42", email |-> "", name |-> "N", username |-> "", avatar |-> ""],
    [id |-> "", email |-> "a@b.com", name |-> "N", username |-> "", avatar |-> ""] }

\* what a fetch ends in: a thrown transport error, or an HTTP response with
\* its status, its body text and, when the body is JSON, the object
Thrown(message) ==
  [thrown |-> TRUE, ok |-> FALSE, status |-> "", text |-> "", message |-> message,
   data |-> NoProfile]
HttpError(status, text) ==
  [thrown |-> FALSE, ok |-> FALSE, status |-> status, text |-> text, message |-> "",
   data |-> NoProfile]
HttpOk(data) ==
  [thrown |-> FALSE, ok |-> TRUE, status |-> "200", text |-> "", message |-> "",
   data |-> data]
NoAnswer == HttpError("", "")

\* the email's local part is taken before the username
DisplayNameEmailFirst(u) ==
  IF u.name # "" THEN u.name ELSE IF u.email # "" THEN SplitAtFirst(u.email)
  ELSE u.username

\* name || username || email.split('@')[0]
DisplayName(u) ==
  IF u.name # "" THEN u.name ELSE IF u.username # "" THEN u.username
  ELSE SplitAtFirst(u.email)

\* the token endpoint's JSON: access_token (0 when it has none) and the three
\* fields completeOAuthFlow looks for a profile in
TokenData(token, user, user_info, profile) ==
  [access_token |-> token, user |-> user, user_info |-> user_info, profile |-> profile]
NoTokenData == TokenData(0, NoProfile, NoProfile, NoProfile)

\* exchangeCodeForToken on the answer of its fetch: the message of the error
\* it throws, empty when it returns the JSON (the message's leading pictograph
\* is left out)
TokenExchangeError(answer) ==
  IF answer.thrown THEN answer.message
  ELSE IF ~answer.ok
       THEN "Sentry token exchange failed: " \o answer.status \o " " \o answer.text
       ELSE ""

\* tokenResponse.user || tokenResponse.user_info || tokenResponse.profile
EmbeddedInfo(tokenResponse) ==
  IF Truthy(tokenResponse.user) THEN tokenResponse.user
  ELSE IF Truthy(tokenResponse.user_info) THEN tokenResponse.user_info
  ELSE tokenResponse.profile

\* lines 789-802: some field is set, and the first one set has id and email
UsesEmbedded(tokenResponse) ==
  LET userInfo == EmbeddedInfo(tokenResponse) IN
  Truthy(userInfo) /\ userInfo.id # "" /\ userInfo.email # ""

\* lines 803-809
EmbeddedUser(userInfo) ==
  [id |-> userInfo.id, email |-> userInfo.email, name |-> DisplayName(userInfo),
   username |-> userInfo.username, avatar |-> userInfo.avatar]

\* the email is not asked for
EndpointOkWithoutEmail(answer) == ~answer.thrown /\ answer.ok /\ answer.data.id # ""

\* getUserInfo, one pass of the loop on the answer of its fetch: response.ok
\* and neither !userData.id nor !userData.email
EndpointOk(answer) ==
  ~answer.thrown /\ answer.ok /\ answer.data.id # "" /\ answer.data.email # ""

\* lines 730-736, the avatar being a string
NormalizedUser(userData) ==
  [id |-> userData.id, email |-> userData.email, name |-> DisplayName(userData),
   username |-> userData.username, avatar |-> userData.avatar]

\* the value lastError gets when the pass does not return (725, 744, 750)
EndpointError(answer, userUrl) ==
  IF answer.thrown THEN answer.message
  ELSE IF answer.ok THEN "Invalid user data from " \o userUrl
  ELSE answer.status \o ": " \o Truncate(answer.text)

\* lines 757-774: the error getUserInfo ends with after the last endpoint;
\* reading accessToken.length (770) throws first when there is no token
getUserInfoError(lastError, accessToken) ==
  IF accessToken = 0 THEN "Cannot read properties of undefined (reading 'length')"
  ELSE IF lastError # "" THEN lastError
  ELSE "All Sentry user endpoints failed"

\* ------------------------------------------------ the provider client
\* a value that may be undefined: <<>>, or the text in a one-element tuple
Undefined == <<>>
Falsy(v) == v = Undefined \/ v = <<"">>

\* the text a template literal or URLSearchParams makes of the value
ToText(v) == IF v = Undefined THEN "undefined" ELSE v[1]

\* process.env as far as the constructor reads it
Env(clientId, clientSecret, redirectUri, baseUrl) ==
  [SENTRY_OAUTH_CLIENT_ID |-> clientId, SENTRY_OAUTH_CLIENT_SECRET |-> clientSecret,
   SENTRY_OAUTH_REDIRECT_URI |-> redirectUri, SENTRY_BASE_URL |-> baseUrl]

\* this.config (lines 500-505)
Config(env) ==
  [clientId |-> env.SENTRY_OAUTH_CLIENT_ID, clientSecret |-> env.SENTRY_OAUTH_CLIENT_SECRET,
   redirectUri |-> env.SENTRY_OAUTH_REDIRECT_URI,
   baseUrl |-> IF Falsy(env.SENTRY_BASE_URL) THEN BaseUrl ELSE env.SENTRY_BASE_URL[1]]

\* the constructor gives up only when both are missing
CredentialsMissingBoth(config) == Falsy(config.clientId) /\ Falsy(config.clientSecret)

\* !this.config.clientId || !this.config.clientSecret
CredentialsMissing(config) == Falsy(config.clientId) \/ Falsy(config.clientSecret)

ConfigurationError == "Sentry OAuth credentials not configured! Check your .env file."

\* URLSearchParams.toString on the characters the values are made of: letters,
\* digits and * - . _ stay, the space becomes +, every other character is
\* escaped
FormEncodeChar(c) ==
  CASE c = " " -> "+" [] c = ":" -> "%3A" [] c = "/" -> "%2F" [] c = "&" -> "%26"
    [] c = "=" -> "%3D" [] c = "+" -> "%2B" [] c = "%" -> "%25" [] c = "?" -> "%3F"
    [] c = "@" -> "%40" [] c = "#" -> "%23"
    [] OTHER -> c

RECURSIVE FormEncode(_)
FormEncode(s) ==
  IF s = "" THEN ""
  ELSE FormEncodeChar(SubSeq(s, 1, 1)) \o FormEncode(SubSeq(s, 2, Len(s)))

\* params: a sequence of <<name, value>>, in the order of insertion
RECURSIVE Serialize(_)
Serialize(params) ==
  IF params = <<>> THEN ""
  ELSE FormEncode(params[1][1]) \o "=" \o FormEncode(params[1][2])
         \o (IF Len(params) > 1 THEN "&" ELSE "") \o Serialize(Tail(params))

\* the scope list of getAuthorizationUrl, joined with a space (548-554)
Scopes == <<"org:read", "project:read", "team:read", "member:read", "event:read">>

RECURSIVE Join(_, _)
Join(list, sep) ==
  IF list = <<>> THEN ""
  ELSE list[1] \o (IF Len(list) > 1 THEN sep ELSE "") \o Join(Tail(list), sep)

\* what is sent to the provider: the browser's GET of the authorization URL
\* or the server's POST to the token endpoint
NoRequest == [op |-> "", arg |-> Undefined, method |-> "", url |-> "", body |-> ""]

\* the values are put into the URL as they are
getAuthorizationUrlPlain(config, state) ==
  [op |-> "authorize", arg |-> state, method |-> "GET",
   url |-> config.baseUrl \o "/oauth/authorize/?response_type=code&client_id="
             \o ToText(config.clientId) \o "&redirect_uri=" \o ToText(config.redirectUri)
             \o "&scope=" \o Join(Scopes, " ")
             \o (IF Falsy(state) THEN "" ELSE "&state=" \o ToText(state)),
   body |-> ""]

\* getAuthorizationUrl (528-575)
getAuthorizationUrl(config, state) ==
  LET scope == Join(Scopes, " ")
      params == << <<"response_type", "code">>, <<"client_id", ToText(config.clientId)>>,
                   <<"redirect_uri", ToText(config.redirectUri)>>, <<"scope", scope>> >>
                  \o (IF Falsy(state) THEN <<>> ELSE << <<"state", ToText(state)>> >>) IN
  [op |-> "authorize", arg |-> state, method |-> "GET",
   url |-> config.baseUrl \o "/oauth/authorize/?" \o Serialize(params), body |-> ""]

\* exchangeCodeForToken up to its fetch (589-615): the POST it sends
TokenRequest(config, code) ==
  LET params == << <<"grant_type", "authorization_code">>,
                   <<"client_id", ToText(config.clientId)>>,
                   <<"client_secret", ToText(config.clientSecret)>>,
                   <<"code", ToText(code)>>,
                   <<"redirect_uri", ToText(config.redirectUri)>> >> IN
  [op |-> "token", arg |-> code, method |-> "POST",
   url |-> config.baseUrl \o "/oauth/token/", body |-> Serialize(params)]

\* the singleton while its module loads, after the constructor returned and
\* after it threw
Loading(env) ==
  [status |-> "loading", env |-> env, config |-> Config(Env(Undefined, Undefined, Undefined, Undefined)),
   error |-> "", request |-> NoRequest]
Constructed(env) ==
  IF CredentialsMissing(Config(env))
  THEN [Loading(env) EXCEPT !.status = "failed", !.error = ConfigurationError]
  ELSE [Loading(env) EXCEPT !.status = "ready", !.config = Config(env)]

\* the environment of the runs that serve requests
ServerEnv ==
  Env(<<"client-1">>, <<"s3cret">>, <<"http://localhost:3001/api/auth/callback">>, Undefined)

\* ------------------------------------------------------------- requests
\* canonical order of the callback steps (index.js 125-163)
StepRank(s) ==
  CASE s = "csrf" -> 1 [] s = "token" -> 2 [] s = "profile" -> 3
    [] s = "upsert" -> 4 [] s = "bind" -> 5 [] OTHER -> 0

Idle ==
  [kind |-> "", sid |-> "", state |-> Undef, code |-> NoStr, pc |-> "idle",
   session |-> EmptySession, orig |-> EmptySession,
   sentryUser |-> NoProfile, accessToken |-> 0, found |-> FALSE, user |-> NullUser,
   steps |-> <<>>, replay |-> FALSE, afterFail |-> FALSE, latest |-> Undef,
   posts |-> 0, tokenData |-> NoTokenData, endpoint |-> 0, answer |-> NoAnswer,
   lastError |-> "", skipped |-> {}, urls |-> <<>>]

\* what the browser got back, with the request's session object before and after
NoResponse ==
  [kind |-> "", sid |-> "", state |-> Undef, code |-> NoStr, status |-> "", error |-> "",
   before |-> EmptySession, after |-> EmptySession, destroyed |-> FALSE,
   steps |-> <<>>, failedAt |-> "", replay |-> FALSE, afterFail |-> FALSE, latest |-> Undef,
   sentryUser |-> NoProfile, user |-> NullUser, accessToken |-> 0,
   posts |-> 0, tokenData |-> NoTokenData, endpoint |-> 0, answer |-> NoAnswer,
   lastError |-> "", skipped |-> {}, urls |-> <<>>, body |-> <<>>]

VARIABLES
  store,        \* session store: browser cookie -> saved session
  database,     \* the SimpleUserStore singleton
  reqs,         \* requests in flight, one per slot
  nextState,    \* next value uuidv4() returns
  nextToken,    \* next access token the provider issues
  now,          \* clock read by new Date()
  nreq,         \* requests received so far
  last,         \* the response sent most recently
  lastIssued,   \* per browser: the state issued by its latest beginLogin
  passed,       \* per state value: callbacks that passed validation with it and went on
  failedSince,  \* per browser: a callback failed and no beginLogin ran since
  lastCb,       \* per browser: query of the callback answered last, no beginLogin since
  sentryOAuthService, \* the provider client singleton and the request it built last
  sentryAPI     \* the dashboard service singleton and the call it is working on

vars == <<store, database, reqs, nextState, nextToken, now, nreq, last, lastIssued, passed,
          failedSince, lastCb, sentryOAuthService, sentryAPI>>

NoQuery == [state |-> Undef, code |-> NoStr, valid |-> FALSE]
\* new SentryAPIService(): no call of the dashboard service under way
NoCall == [pc |-> "idle"]

Init ==
  /\ store = [b \in Browsers |-> [present |-> FALSE, data |-> EmptySession]]
  /\ database = SimpleUserStore
  /\ reqs = [r \in Slots |-> Idle]
  /\ nextState = 1
  /\ nextToken = 1
  /\ now = 1
  /\ nreq = 0
  /\ last = NoResponse
  /\ lastIssued = [b \in Browsers |-> Undef]
  /\ passed = [s \in StateIds |-> 0]
  /\ failedSince = [b \in Browsers |-> FALSE]
  /\ lastCb = [b \in Browsers |-> NoQuery]
  /\ sentryOAuthService = Constructed(ServerEnv)
  /\ sentryAPI = NoCall

FreeSlot(r) == reqs[r].pc = "idle" /\ \A q \in Slots : q < r => reqs[q].pc # "idle"

\* the state values a callback can carry: none, one never issued, or an issued one
QueryStates == {Undef, Forged} \cup 1..(nextState - 1)

\* session middleware (index.js 41-50): a request of kind k from browser b
\* starts its handler on its own copy of the stored session
Load(k, b, st, cd) ==
  [Idle EXCEPT !.kind = k, !.sid = b, !.state = st, !.code = cd, !.pc = "loaded",
               !.session = LoadSession(store, b), !.orig = LoadSession(store, b),
               !.replay = (k = "callback" /\ lastCb[b].valid
                           /\ lastCb[b].state = st /\ lastCb[b].code = cd),
               !.afterFail = (k = "callback" /\ failedSince[b]),
               !.latest = lastIssued[b]]

\* one more request is received; the first one comes from browser b1
Receive(b) ==
  /\ nreq < MaxRequests
  /\ nreq = 0 => b = "b1"
  /\ nreq' = nreq + 1

\* the user record is sent whole
SafeUserKeepsToken(user) == user

\* const { access_token, ...safeUser } = user
SafeUser(user) == [f \in (DOMAIN user) \ {"access_token"} |-> user[f]]

\* the JSON body of a 200 answer of /api/auth/me (86), /api/protected
\* (196-201) and /api/demo/stats (416-419); the other bodies are not modelled
ResponseBody(q, sess, status) ==
  IF status # "200" THEN <<>>
  ELSE CASE q.kind = "me" -> [user |-> SafeUser(q.user)]
         [] q.kind = "protected" ->
              [message |-> "This is a protected route - you are authenticated with Sentry!",
               userId |-> sess.userId, sentryId |-> sess.sentryId, timestamp |-> now]
         [] q.kind = "stats" ->
              [message |-> "Sentry OAuth Demo - User Storage Stats",
               totalUsers |-> getStats(database).totalUsers,
               users |-> getStats(database).users]
         [] OTHER -> <<>>

\* res.redirect of the callback (170, 175): where a response with this
\* status and error message sends the browser
FrontendUrl == "http://localhost:5173"
RedirectUrl(status, error) ==
  IF status = "redirect_success" THEN FrontendUrl \o "/auth/success"
  ELSE IF status = "redirect_error"
       THEN FrontendUrl \o "/auth/error?message=" \o encodeURIComponent(error)
       ELSE ""

\* res.end: the response goes out and the session is saved if modified
Response(q, sess, destroyed, status, error, failedAt) ==
  [kind |-> q.kind, sid |-> q.sid, state |-> q.state, code |-> q.code,
   status |-> status, error |-> error, before |-> q.orig, after |-> sess,
   destroyed |-> destroyed, steps |-> q.steps, failedAt |-> failedAt,
   replay |-> q.replay, afterFail |-> q.afterFail, latest |-> q.latest,
   sentryUser |-> q.sentryUser, user |-> q.user, accessToken |-> q.accessToken,
   posts |-> q.posts, tokenData |-> q.tokenData, endpoint |-> q.endpoint,
   answer |-> q.answer, lastError |-> q.lastError, skipped |-> q.skipped, urls |-> q.urls,
   body |-> ResponseBody(q, sess, status)]

Respond(q, sess, status, error, failedAt) ==
  /\ store' = SaveSession(store, q.sid, sess, q.orig, FALSE)
  /\ last' = Response(q, sess, FALSE, status, error, failedAt)

\* a callback's response also closes the attempt it belonged to
CallbackDone(q, sess, status, error, failedAt) ==
  /\ Respond(q, sess, status, error, failedAt)
  /\ failedSince' = [failedSince EXCEPT ![q.sid] = (status # "redirect_success") \/ @]
  /\ lastCb' = [lastCb EXCEPT ![q.sid] = [state |-> q.state, code |-> q.code, valid |-> TRUE]]

\* ------------------------------------------------- GET /api/auth/login
\* a pending state is kept instead of overwritten
LoginSessionKeepsPending(sess, state) ==
  IF sess.oauthState # Undef THEN sess ELSE [sess EXCEPT !.oauthState = state]

\* the state is stored under userId as well
LoginSessionSetsUser(sess, state) == [sess EXCEPT !.oauthState = state, !.userId = state]

\* req.session.oauthState = state
LoginSession(sess, state) == [sess EXCEPT !.oauthState = state]

Login(b) ==
  LET q == Load("login", b, Undef, NoStr) IN
  /\ Receive(b)
  /\ nextState <= MaxStates
  /\ nextState' = nextState + 1
  /\ Respond(q, LoginSession(q.session, nextState), "200", "", "")
  /\ lastIssued' = [lastIssued EXCEPT ![b] = nextState]
  /\ failedSince' = [failedSince EXCEPT ![b] = FALSE]
  /\ lastCb' = [lastCb EXCEPT ![b] = NoQuery]
  /\ UNCHANGED <<sentryOAuthService, sentryAPI, database, reqs, nextToken, now, passed>>

\* ---------------------------------------------- GET /api/auth/callback
\* the delete left out
ClearStateKeeps(sess) == sess

\* delete req.session.oauthState
ClearState(sess) == [sess EXCEPT !.oauthState = Undef]

\* only the provider id is written
BindSessionSentryIdOnly(sess, user, sentryUser) == [sess EXCEPT !.sentryId = sentryUser.id]

\* the provider id of the session is left as it was
BindSessionKeepsSentryId(sess, user, sentryUser) == [sess EXCEPT !.userId = user.id]

\* req.session.userId = user.id; req.session.sentryId = sentryUser.id
BindSession(sess, user, sentryUser) ==
  [sess EXCEPT !.userId = user.id, !.sentryId = sentryUser.id]

\* the code is never looked at
CodeMissingNever(code) == FALSE

\* line 135: !code
CodeMissing(code) == code = NoStr

\* lines 123-143: state check, state cleared, code check, token request sent
CallbackStart(r, b, st, cd) ==
  LET q == Load("callback", b, st, cd) IN
  /\ Receive(b)
  /\ FreeSlot(r)
  /\ IF ~CsrfValid(q.state, q.session)
     THEN /\ CallbackDone([q EXCEPT !.steps = <<"csrf">>], q.session,
                          "400", "Invalid state parameter", "csrf")
          /\ UNCHANGED <<passed, reqs>>
     ELSE IF CodeMissing(q.code)
     THEN /\ CallbackDone([q EXCEPT !.steps = <<"csrf">>], ClearState(q.session),
                          "400", "Authorization code not provided", "code")
          /\ UNCHANGED <<passed, reqs>>
     ELSE /\ reqs' = [reqs EXCEPT ![r] =
               [q EXCEPT !.pc = "exchange", !.session = ClearState(q.session),
                         !.steps = <<"csrf", "token">>, !.posts = 1]]
          /\ passed' = [passed EXCEPT ![q.state] = @ + 1]
          /\ UNCHANGED <<store, last, failedSince, lastCb>>
  /\ UNCHANGED <<sentryOAuthService, sentryAPI, database, nextState, nextToken, now, lastIssued>>

\* completeOAuthFlow returned {user, accessToken}; line 151 looks the user up
FlowDone(r, q, sentryUser, accessToken) ==
  reqs' = [reqs EXCEPT ![r] =
    [q EXCEPT !.pc = "found", !.sentryUser = sentryUser, !.accessToken = accessToken,
              !.found = (findUserBySentryId(database, sentryUser.id) # NullUser)]]

\* the error swallowed: the handler carries on with an empty profile
CallbackErrorContinues(r, q, error, failedAt) ==
  /\ FlowDone(r, q, NoProfile, q.accessToken)
  /\ UNCHANGED <<store, last, failedSince, lastCb>>

\* the error thrown inside the try block: redirect to the error page (172-176)
CallbackError(r, q, error, failedAt) ==
  /\ CallbackDone(q, q.session, "redirect_error", error, failedAt)
  /\ reqs' = [reqs EXCEPT ![r] = Idle]

\* the POST is sent once more, once
ExchangeFailedRetries(r, q, error) ==
  IF q.posts < 2
  THEN /\ reqs' = [reqs EXCEPT ![r] = [q EXCEPT !.posts = @ + 1]]
       /\ UNCHANGED <<store, last, failedSince, lastCb>>
  ELSE CallbackError(r, q, error, "token")

\* exchangeCodeForToken threw (641, 667, 677): completeOAuthFlow and the
\* handler's try block end there
ExchangeFailed(r, q, error) == CallbackError(r, q, error, "token")

\* the token endpoint answered: exchangeCodeForToken throws or returns the
\* JSON, and completeOAuthFlow (786-814) returns the embedded profile or
\* sends the first getUserInfo request
TokenAnswered(r, q, answer) ==
  LET tokenResponse == answer.data
      got == [q EXCEPT !.tokenData = tokenResponse, !.answer = answer] IN
  /\ nextToken' = IF answer.ok /\ tokenResponse.access_token # 0
                  THEN nextToken + 1 ELSE nextToken
  /\ IF TokenExchangeError(answer) # ""
     THEN ExchangeFailed(r, [q EXCEPT !.answer = answer], TokenExchangeError(answer))
     ELSE IF UsesEmbedded(tokenResponse)
     THEN /\ FlowDone(r, got, EmbeddedUser(EmbeddedInfo(tokenResponse)),
                      tokenResponse.access_token)
          /\ UNCHANGED <<store, last, failedSince, lastCb>>
     ELSE /\ reqs' = [reqs EXCEPT ![r] =
               [got EXCEPT !.pc = "userinfo", !.accessToken = tokenResponse.access_token,
                           !.endpoint = 1, !.urls = <<possibleEndpoints[1]>>,
                           !.steps = Append(@, "profile")]]
          /\ UNCHANGED <<store, last, failedSince, lastCb>>

\* token endpoint answers that carry a token: a refusal, a token with a
\* complete profile under user, or a token alone
TokenRefused ==
  [thrown |-> FALSE, ok |-> FALSE, status |-> "400", text |-> "invalid_grant",
   message |-> "", data |-> NoTokenData]
TokenOk(tokenData) ==
  [thrown |-> FALSE, ok |-> TRUE, status |-> "200", text |-> "", message |-> "",
   data |-> tokenData]
TokenAnswersWithToken(token) ==
  {TokenRefused, TokenOk(TokenData(token, NoProfile, NoProfile, NoProfile))}
    \cup {TokenOk(TokenData(token, p, NoProfile, NoProfile)) : p \in Profiles}

ExchangeReturn(r) ==
  LET q == reqs[r] IN
  /\ q.pc = "exchange"
  /\ \E answer \in TokenAnswersWithToken(nextToken) : TokenAnswered(r, q, answer)
  /\ UNCHANGED <<sentryOAuthService, sentryAPI, database, nextState, now, nreq, lastIssued, passed>>

\* getUserInfo ended, the loop taken as one step: the normalized profile of
\* some endpoint, or the error of the last one
UserInfoReturn(r) ==
  LET q == reqs[r]
      refused == HttpError("401", "Invalid token") IN
  /\ q.pc = "userinfo"
  /\ \/ CallbackError(r, [q EXCEPT !.answer = refused, !.endpoint = Len(possibleEndpoints),
                                   !.urls = possibleEndpoints],
                      getUserInfoError(EndpointError(refused, ""), q.accessToken),
                      "profile")
     \/ /\ \E p \in Profiles : FlowDone(r, [q EXCEPT !.answer = HttpOk(p)],
                                         NormalizedUser(p), q.accessToken)
        /\ UNCHANGED <<store, last, failedSince, lastCb>>
  /\ UNCHANGED <<sentryOAuthService, sentryAPI,
                 database, nextState, nextToken, now, nreq, lastIssued, passed>>

\* lines 153-159, after the await of findUserBySentryId
Upsert(r) ==
  LET q == reqs[r]
      t == now + 1 IN
  /\ q.pc = "found"
  /\ now' = t
  /\ database' = IF q.found THEN updateUser(database, q.sentryUser, q.accessToken, t)
                 ELSE createUser(database, q.sentryUser, q.accessToken, t)
  /\ reqs' = [reqs EXCEPT ![r] =
       [q EXCEPT !.pc = "upserted", !.steps = Append(@, "upsert"),
                 !.user = IF q.found
                          THEN UpdatedUser(database, q.sentryUser, q.accessToken, t)
                          ELSE NewUser(database, q.sentryUser, q.accessToken, t)]]
  /\ UNCHANGED <<sentryOAuthService, sentryAPI,
                 store, nextState, nextToken, nreq, last, lastIssued, passed,
                 failedSince, lastCb>>

\* lines 161-170, after the await of createUser / updateUser
Bind(r) ==
  LET q == reqs[r] IN
  /\ q.pc = "upserted"
  /\ CallbackDone([q EXCEPT !.steps = Append(@, "bind")],
                  BindSession(q.session, q.user, q.sentryUser), "redirect_success", "", "")
  /\ reqs' = [reqs EXCEPT ![r] = Idle]
  /\ UNCHANGED <<sentryOAuthService, sentryAPI,
                 database, nextState, nextToken, now, nreq, lastIssued, passed>>

\* ---------------------------------------------- POST /api/auth/logout
\* the answer goes out and the session stays
DestroyedLeavesSession(q, status, error) == Respond(q, q.session, status, error, "")

\* req.session.destroy(), then the answer
Destroyed(q, status, error) ==
  /\ store' = DestroySession(store, q.sid)
  /\ last' = Response(q, q.session, TRUE, status, error, "")

\* the record of the session's user is removed as well
LogoutDeletesUser(b) ==
  LET user == findUserById(database, LoadSession(store, b).userId) IN
  /\ Receive(b)
  /\ Destroyed(Load("logout", b, Undef, NoStr), "200", "")
  /\ database' = [database EXCEPT !.users = MapDelete(@, user.id),
                                   !.usersBySentryId = MapDelete(@, user.sentry_id),
                                   !.usersByEmail = MapDelete(@, user.email)]
  /\ UNCHANGED <<sentryOAuthService, sentryAPI,
                 reqs, nextState, nextToken, now, lastIssued, passed,
                 failedSince, lastCb>>

Logout(b) ==
  /\ Receive(b)
  /\ Destroyed(Load("logout", b, Undef, NoStr), "200", "")
  /\ UNCHANGED <<sentryOAuthService, sentryAPI,
                 database, reqs, nextState, nextToken, now, lastIssued, passed,
                 failedSince, lastCb>>

\* --------------------------------------------------- GET /api/auth/me
\* lines 75-77: requireAuth, then findUserById is awaited
MeHandler(r, b) ==
  LET q == Load("me", b, Undef, NoStr) IN
  /\ Receive(b)
  /\ FreeSlot(r)
  /\ IF ~requireAuth(q.session)
     THEN /\ Respond(q, q.session, "401", "Authentication required", "")
          /\ UNCHANGED reqs
     ELSE /\ reqs' = [reqs EXCEPT ![r] =
               [q EXCEPT !.pc = "me_found", !.user = findUserById(database, q.session.userId)]]
          /\ UNCHANGED <<store, last>>
  /\ UNCHANGED <<sentryOAuthService, sentryAPI,
                 database, nextState, nextToken, now, lastIssued, passed, failedSince, lastCb>>

\* lines 78-87
MeRespond(r) ==
  LET q == reqs[r] IN
  /\ q.pc = "me_found"
  /\ IF q.user = NullUser
     THEN Destroyed(q, "401", "User not found")
     ELSE Respond(q, q.session, "200", "", "")
  /\ reqs' = [reqs EXCEPT ![r] = Idle]
  /\ UNCHANGED <<sentryOAuthService, sentryAPI,
                 database, nextState, nextToken, now, nreq, lastIssued, passed,
                 failedSince, lastCb>>

\* ---------------------------------- GET /api/dashboard/organizations
\* lines 205-213: requireAuth, findUserById, token check, provider request sent
OrgsHandler(r, b) ==
  LET q == Load("orgs", b, Undef, NoStr)
      user == findUserById(database, q.session.userId) IN
  /\ Receive(b)
  /\ FreeSlot(r)
  /\ IF ~requireAuth(q.session)
     THEN /\ Respond(q, q.session, "401", "Authentication required", "")
          /\ UNCHANGED reqs
     ELSE IF user = NullUser \/ user.access_token = 0
     THEN /\ Respond(q, q.session, "401", "No Sentry access token found", "")
          /\ UNCHANGED reqs
     ELSE /\ reqs' = [reqs EXCEPT ![r] = [q EXCEPT !.pc = "orgs_api", !.user = user]]
          /\ UNCHANGED <<store, last>>
  /\ UNCHANGED <<sentryOAuthService, sentryAPI,
                 database, nextState, nextToken, now, lastIssued, passed, failedSince, lastCb>>

\* lines 213-219: getOrganizations returned or threw
OrgsReturn(r) ==
  LET q == reqs[r] IN
  /\ q.pc = "orgs_api"
  /\ \/ Respond(q, q.session, "200", "", "")
     \/ Respond(q, q.session, "500", "Failed to fetch organizations", "")
  /\ reqs' = [reqs EXCEPT ![r] = Idle]
  /\ UNCHANGED <<sentryOAuthService, sentryAPI,
                 database, nextState, nextToken, now, nreq, lastIssued, passed,
                 failedSince, lastCb>>

\* --------------------------------------------------- GET /api/protected
\* requireAuth, then the body built from the session (194-202)
Protected(b) ==
  LET q == Load("protected", b, Undef, NoStr) IN
  /\ Receive(b)
  /\ IF ~requireAuth(q.session)
     THEN Respond(q, q.session, "401", "Authentication required", "")
     ELSE Respond(q, q.session, "200", "", "")
  /\ UNCHANGED <<sentryOAuthService, sentryAPI,
                 database, reqs, nextState, nextToken, now, lastIssued, passed,
                 failedSince, lastCb>>

\* -------------------------------------------------- GET /api/demo/stats
\* no requireAuth: anyone gets the listing (414-421)
Stats(b) ==
  LET q == Load("stats", b, Undef, NoStr) IN
  /\ Receive(b)
  /\ Respond(q, q.session, "200", "", "")
  /\ UNCHANGED <<sentryOAuthService, sentryAPI,
                 database, reqs, nextState, nextToken, now, lastIssued, passed,
                 failedSince, lastCb>>

\* ------------------------------------------------------- specification
Next ==
  \/ \E b \in Browsers : Login(b)
  \/ \E b \in Browsers : Logout(b)
  \/ \E r \in Slots, b \in Browsers, st \in QueryStates, cd \in Codes \cup {NoStr} :
       CallbackStart(r, b, st, cd)
  \/ \E r \in Slots, b \in Browsers : MeHandler(r, b)
  \/ \E r \in Slots : ExchangeReturn(r)
  \/ \E r \in Slots : UserInfoReturn(r)
  \/ \E r \in Slots : Upsert(r)
  \/ \E r \in Slots : Bind(r)
  \/ \E r \in Slots : MeRespond(r)

Spec == Init /\ [][Next]_vars

\* ------------------------------------- the routes behind the login
\* browsers that follow the redirects: a callback carries the state issued
\* to its browser last and a code
RedirectedCallback(r, b) ==
  /\ lastIssued[b] # Undef
  /\ CallbackStart(r, b, lastIssued[b], "c1")

RoutesNext ==
  \/ \E b \in Browsers : Login(b)
  \/ \E r \in Slots, b \in Browsers : RedirectedCallback(r, b)
  \/ \E r \in Slots : ExchangeReturn(r)
  \/ \E r \in Slots : UserInfoReturn(r)
  \/ \E r \in Slots : Upsert(r)
  \/ \E r \in Slots : Bind(r)
  \/ \E r \in Slots, b \in Browsers : MeHandler(r, b)
  \/ \E r \in Slots : MeRespond(r)
  \/ \E r \in Slots, b \in Browsers : OrgsHandler(r, b)
  \/ \E r \in Slots : OrgsReturn(r)
  \/ \E b \in Browsers : Protected(b)
  \/ \E b \in Browsers : Stats(b)

RoutesSpec == Init /\ [][RoutesNext]_vars

\* ----------------------------------- one login attempt, step by step
\* every shape of answer of the token endpoint: a transport error, a
\* refusal, or JSON with or without a token and with a complete, an
\* incomplete or no object under user, user_info and profile
TokenThrown ==
  [thrown |-> TRUE, ok |-> FALSE, status |-> "", text |-> "",
   message |-> "request to https://sentry.io/oauth/token/ failed", data |-> NoTokenData]
EmbeddedComplete ==
  [id |-> "42", email |-> "a@b.com", name |-> "", username |-> "ab", avatar |-> ""]
EmbeddedIncomplete ==
  [id |-> "42", email |-> "", name |-> "N", username |-> "", avatar |-> ""]
TokenAnswers(token) ==
  {TokenThrown, TokenRefused}
    \cup {TokenOk(TokenData(t, u, ui, p)) :
            t \in {0, token}, u \in {NoProfile, EmbeddedIncomplete} \cup RawComplete,
            ui \in {NoProfile, EmbeddedComplete}, p \in {NoProfile, EmbeddedComplete}}

\* every shape of answer of a profile endpoint
EndpointAnswers ==
  {Thrown("socket hang up"), HttpError("404", "Not Found"), HttpError("401", "Invalid token")}
    \cup {HttpOk(d) : d \in RawComplete \cup RawIncomplete}

FlowLogin == nreq = 0 /\ Login("b1")

FlowCallback ==
  /\ nreq = 1
  /\ \E st \in QueryStates, cd \in Codes \cup {NoStr} : CallbackStart(1, "b1", st, cd)

TokenReturn(r) ==
  LET q == reqs[r] IN
  /\ q.pc = "exchange"
  /\ \E answer \in TokenAnswers(nextToken) : TokenAnswered(r, q, answer)
  /\ UNCHANGED <<sentryOAuthService, sentryAPI, database, nextState, now, nreq, lastIssued, passed>>

\* the last endpoint is asked once more before getUserInfo gives up
EndpointReturnRetriesLast(r) ==
  LET q == reqs[r]
      next == IF q.endpoint < Len(possibleEndpoints) THEN q.endpoint + 1 ELSE q.endpoint IN
  /\ q.pc = "userinfo"
  /\ \E answer \in EndpointAnswers :
       LET lastError == EndpointError(answer, possibleEndpoints[q.endpoint])
           got == [q EXCEPT !.answer = answer] IN
       IF EndpointOk(answer)
       THEN /\ FlowDone(r, got, NormalizedUser(answer.data), q.accessToken)
            /\ UNCHANGED <<store, last, failedSince, lastCb>>
       ELSE IF Len(q.urls) <= Len(possibleEndpoints)
       THEN /\ reqs' = [reqs EXCEPT ![r] =
                 [got EXCEPT !.endpoint = next, !.lastError = lastError,
                             !.skipped = @ \cup {answer},
                             !.urls = Append(@, possibleEndpoints[next])]]
            /\ UNCHANGED <<store, last, failedSince, lastCb>>
       ELSE CallbackError(r, [got EXCEPT !.lastError = lastError, !.skipped = @ \cup {answer}],
                          getUserInfoError(lastError, q.accessToken), "profile")
  /\ UNCHANGED <<sentryOAuthService, sentryAPI,
                 database, nextState, nextToken, now, nreq, lastIssued, passed>>

\* getUserInfo 701-775: the endpoint asked last answered; the pass returns
\* the profile, or keeps the error and asks the next endpoint, or, after the
\* last endpoint, ends getUserInfo with an error
EndpointReturn(r) ==
  LET q == reqs[r] IN
  /\ q.pc = "userinfo"
  /\ \E answer \in EndpointAnswers :
       LET lastError == EndpointError(answer, possibleEndpoints[q.endpoint])
           got == [q EXCEPT !.answer = answer] IN
       IF EndpointOk(answer)
       THEN /\ FlowDone(r, got, NormalizedUser(answer.data), q.accessToken)
            /\ UNCHANGED <<store, last, failedSince, lastCb>>
       ELSE IF q.endpoint < Len(possibleEndpoints)
       THEN /\ reqs' = [reqs EXCEPT ![r] =
                 [got EXCEPT !.endpoint = @ + 1, !.lastError = lastError,
                             !.skipped = @ \cup {answer},
                             !.urls = Append(@, possibleEndpoints[q.endpoint + 1])]]
            /\ UNCHANGED <<store, last, failedSince, lastCb>>
       ELSE CallbackError(r, [got EXCEPT !.lastError = lastError, !.skipped = @ \cup {answer}],
                          getUserInfoError(lastError, q.accessToken), "profile")
  /\ UNCHANGED <<sentryOAuthService, sentryAPI,
                 database, nextState, nextToken, now, nreq, lastIssued, passed>>

FlowNext ==
  \/ FlowLogin
  \/ FlowCallback
  \/ \E r \in Slots : TokenReturn(r)
  \/ \E r \in Slots : EndpointReturn(r)
  \/ \E r \in Slots : Upsert(r)
  \/ \E r \in Slots : Bind(r)

FlowSpec == Init /\ [][FlowNext]_vars

\* every request getUserInfo awaits returns or throws
FlowFairSpec == FlowSpec /\ \A r \in Slots : WF_vars(EndpointReturn(r))

\* ------------------------------------- a session whose record is gone
\* browser b1 logged in as the first user (state 1, token 1) and the
\* directory then lost that record; the program itself never removes one
StaleSession == [oauthState |-> Undef, userId |-> 1, sentryId |-> "u1"]

StaleInit ==
  /\ store = [b \in Browsers |->
               IF b = "b1" THEN [present |-> TRUE, data |-> StaleSession]
               ELSE [present |-> FALSE, data |-> EmptySession]]
  /\ database = [SimpleUserStore EXCEPT !.nextId = 2]
  /\ reqs = [r \in Slots |-> Idle]
  /\ nextState = 2
  /\ nextToken = 2
  /\ now = 2
  /\ nreq = 0
  /\ last = NoResponse
  /\ lastIssued = [b \in Browsers |-> IF b = "b1" THEN 1 ELSE Undef]
  /\ passed = [s \in StateIds |-> IF s = 1 THEN 1 ELSE 0]
  /\ failedSince = [b \in Browsers |-> FALSE]
  /\ lastCb = [b \in Browsers |->
                IF b = "b1" THEN [state |-> 1, code |-> "c1", valid |-> TRUE] ELSE NoQuery]
  /\ sentryOAuthService = Constructed(ServerEnv)
  /\ sentryAPI = NoCall

\* the routes that read or write the session's binding, asked by b1
StaleNext ==
  \/ \E b \in {"b1"} : Login(b)
  \/ \E b \in {"b1"} : Logout(b)
  \/ \E r \in Slots, b \in {"b1"}, st \in QueryStates, cd \in Codes \cup {NoStr} :
       CallbackStart(r, b, st, cd)
  \/ \E r \in Slots : ExchangeReturn(r)
  \/ \E r \in Slots : UserInfoReturn(r)
  \/ \E r \in Slots : Upsert(r)
  \/ \E r \in Slots : Bind(r)
  \/ \E r \in Slots, b \in {"b1"} : MeHandler(r, b)
  \/ \E r \in Slots : MeRespond(r)
  \/ \E b \in {"b1"} : Protected(b)

StaleSpec == StaleInit /\ [][StaleNext]_vars

\* --------------------------------- a browser that logged in before
\* browser b1 went through one login as the first user: state 1 issued and
\* consumed, token 1 stored at time 2, the session bound to record 1
FirstProfile ==
  [id |-> "u1", email |-> "a@x.com", name |-> "A", username |-> "a", avatar |-> "av1"]

BoundSession == BindSession(EmptySession, NewUser(SimpleUserStore, FirstProfile, 1, 2), FirstProfile)

ReturningInit ==
  /\ store = [b \in Browsers |->
               IF b = "b1" THEN [present |-> TRUE, data |-> BoundSession]
               ELSE [present |-> FALSE, data |-> EmptySession]]
  /\ database = createUser(SimpleUserStore, FirstProfile, 1, 2)
  /\ reqs = [r \in Slots |-> Idle]
  /\ nextState = 2
  /\ nextToken = 2
  /\ now = 2
  /\ nreq = 0
  /\ last = NoResponse
  /\ lastIssued = [b \in Browsers |-> IF b = "b1" THEN 1 ELSE Undef]
  /\ passed = [s \in StateIds |-> IF s = 1 THEN 1 ELSE 0]
  /\ failedSince = [b \in Browsers |-> FALSE]
  /\ lastCb = [b \in Browsers |->
                IF b = "b1" THEN [state |-> 1, code |-> "c1", valid |-> TRUE] ELSE NoQuery]
  /\ sentryOAuthService = Constructed(ServerEnv)
  /\ sentryAPI = NoCall

\* the authentication routes, asked by b1
ReturningNext ==
  \/ \E b \in {"b1"} : Login(b)
  \/ \E b \in {"b1"} : Logout(b)
  \/ \E r \in Slots, b \in {"b1"}, st \in QueryStates, cd \in Codes \cup {NoStr} :
       CallbackStart(r, b, st, cd)
  \/ \E r \in Slots : ExchangeReturn(r)
  \/ \E r \in Slots : UserInfoReturn(r)
  \/ \E r \in Slots : Upsert(r)
  \/ \E r \in Slots : Bind(r)
  \/ \E r \in Slots, b \in {"b1"} : MeHandler(r, b)
  \/ \E r \in Slots : MeRespond(r)

ReturningSpec == ReturningInit /\ [][ReturningNext]_vars

\* ------------------------------------------ the routes of one browser
\* browser b1 logged in with a token response that carried the profile but
\* no access_token: record 1 holds no token, and no token was issued
TokenlessProfile == EmbeddedUser(EmbeddedComplete)

TokenlessSession ==
  BindSession(EmptySession, NewUser(SimpleUserStore, TokenlessProfile, 0, 2), TokenlessProfile)

TokenlessInit ==
  /\ store = [b \in Browsers |->
               IF b = "b1" THEN [present |-> TRUE, data |-> TokenlessSession]
               ELSE [present |-> FALSE, data |-> EmptySession]]
  /\ database = createUser(SimpleUserStore, TokenlessProfile, 0, 2)
  /\ reqs = [r \in Slots |-> Idle]
  /\ nextState = 2
  /\ nextToken = 1
  /\ now = 2
  /\ nreq = 0
  /\ last = NoResponse
  /\ lastIssued = [b \in Browsers |-> IF b = "b1" THEN 1 ELSE Undef]
  /\ passed = [s \in StateIds |-> IF s = 1 THEN 1 ELSE 0]
  /\ failedSince = [b \in Browsers |-> FALSE]
  /\ lastCb = [b \in Browsers |->
                IF b = "b1" THEN [state |-> 1, code |-> "c1", valid |-> TRUE] ELSE NoQuery]
  /\ sentryOAuthService = Constructed(ServerEnv)
  /\ sentryAPI = NoCall

\* b1 has no session, or a session bound to a record with a token, to a
\* record without a token, or to a record that is gone
GuardInit == Init \/ ReturningInit \/ TokenlessInit \/ StaleInit

GuardNext ==
  \/ \E b \in {"b1"} : Login(b)
  \/ \E b \in {"b1"} : Logout(b)
  \/ \E r \in Slots, b \in {"b1"} : MeHandler(r, b)
  \/ \E r \in Slots : MeRespond(r)
  \/ \E r \in Slots, b \in {"b1"} : OrgsHandler(r, b)
  \/ \E r \in Slots : OrgsReturn(r)
  \/ \E b \in {"b1"} : Protected(b)

GuardSpec == GuardInit /\ [][GuardNext]_vars

\* browser b1 asks every route, with any state and code in its callbacks
DirectoryNext ==
  \/ \E b \in {"b1"} : Login(b)
  \/ \E b \in {"b1"} : Logout(b)
  \/ \E r \in Slots, b \in {"b1"}, st \in QueryStates, cd \in Codes \cup {NoStr} :
       CallbackStart(r, b, st, cd)
  \/ \E r \in Slots : ExchangeReturn(r)
  \/ \E r \in Slots : UserInfoReturn(r)
  \/ \E r \in Slots : Upsert(r)
  \/ \E r \in Slots : Bind(r)
  \/ \E r \in Slots, b \in {"b1"} : MeHandler(r, b)
  \/ \E r \in Slots : MeRespond(r)
  \/ \E r \in Slots, b \in {"b1"} : OrgsHandler(r, b)
  \/ \E r \in Slots : OrgsReturn(r)
  \/ \E b \in {"b1"} : Protected(b)
  \/ \E b \in {"b1"} : Stats(b)

DirectorySpec == Init /\ [][DirectoryNext]_vars

\* ------------------------------------- the provider client on its own
\* the environments the server is started in and the arguments of the calls
ClientIds == {Undefined, <<"">>, <<"client-1">>, <<"id&2">>}
ClientSecrets == {Undefined, <<"s3cret">>}
RedirectUris == {Undefined, <<"http://localhost:3001/api/auth/callback">>}
BaseUrls == {Undefined, <<"https://sentry.example.com">>}
Envs ==
  {Env(id, secret, uri, base) :
     id \in ClientIds, secret \in ClientSecrets, uri \in RedirectUris, base \in BaseUrls}
StateArgs == {Undefined, <<"">>, <<"3f2b-1">>, <<"a b&c=d">>, <<"x+y%z">>}
CodeArgs == {<<"c1">>, <<"4/0A x+y">>}

serverVars == <<store, database, reqs, nextState, nextToken, now, nreq, last, lastIssued,
                passed, failedSince, lastCb, sentryAPI>>

ClientInit ==
  /\ store = [b \in Browsers |-> [present |-> FALSE, data |-> EmptySession]]
  /\ database = SimpleUserStore
  /\ reqs = [r \in Slots |-> Idle]
  /\ nextState = 1
  /\ nextToken = 1
  /\ now = 1
  /\ nreq = 0
  /\ last = NoResponse
  /\ lastIssued = [b \in Browsers |-> Undef]
  /\ passed = [s \in StateIds |-> 0]
  /\ failedSince = [b \in Browsers |-> FALSE]
  /\ lastCb = [b \in Browsers |-> NoQuery]
  /\ \E env \in Envs : sentryOAuthService = Loading(env)
  /\ sentryAPI = NoCall

\* new SentryOAuthService() when the module is loaded (line 823)
Construct ==
  /\ sentryOAuthService.status = "loading"
  /\ sentryOAuthService' = Constructed(sentryOAuthService.env)
  /\ UNCHANGED serverVars

\* a call of getAuthorizationUrl on the exported singleton
BuildUrl(state) ==
  /\ sentryOAuthService.status = "ready"
  /\ sentryOAuthService' =
       [sentryOAuthService EXCEPT
          !.request = getAuthorizationUrl(sentryOAuthService.config, state)]
  /\ UNCHANGED serverVars

\* a call of exchangeCodeForToken on the exported singleton, up to the fetch
SendTokenRequest(code) ==
  /\ sentryOAuthService.status = "ready"
  /\ sentryOAuthService' =
       [sentryOAuthService EXCEPT !.request = TokenRequest(sentryOAuthService.config, code)]
  /\ UNCHANGED serverVars

ClientNext ==
  \/ Construct
  \/ \E state \in StateArgs : BuildUrl(state)
  \/ \E code \in CodeArgs : SendTokenRequest(code)

ClientSpec == ClientInit /\ [][ClientNext]_vars

\* ------------------------------------------------ the dashboard service
\* JSON values of the provider's answers: null, arrays, and objects with
\* their properties
JsonNull == [type |-> "null"]
JsonArray(items) == [type |-> "array", items |-> items]
\* an issue with its level: absent, or a text
Issue(level) == [type |-> "object", level |-> level]

\* an HTTP answer of the provider: response.ok with its JSON body, or a failure status
Ok(body) == [ok |-> TRUE, status |-> 200, body |-> body]
Failed(status) == [ok |-> FALSE, status |-> status, body |-> JsonNull]

\* how a call ends: a returned value or a thrown Error
Return(value) == [threw |-> FALSE, value |-> value]
Throw(message) == [threw |-> TRUE, message |-> message]

makeRequest(answer) ==
  IF ~answer.ok
    THEN IF answer.status = 401
           THEN Throw("Authentication failed - check access token and scopes")
         ELSE IF answer.status = 403
           THEN Throw("Permission denied - insufficient scopes")
         ELSE IF answer.status = 404
           THEN Throw("Resource not found - check organization slug and endpoint")
         ELSE Throw("Sentry API error")
    ELSE Return(answer.body)

getReplays(answer) ==
  LET response == makeRequest(answer) IN
    IF response.threw THEN response
    ELSE IF response.value.type = "array" THEN Return(response.value)
    ELSE IF response.value.type = "object"
      THEN IF "data" \in DOMAIN response.value /\ response.value.data.type = "array"
             THEN Return(response.value.data)
           ELSE IF "results" \in DOMAIN response.value
                     /\ response.value.results.type = "array"
             THEN Return(response.value.results)
           ELSE Return(JsonArray(<<>>))
    ELSE Return(JsonArray(<<>>))

\* one entry of Promise.allSettled's result
Settled(outcome) ==
  IF outcome.threw
    THEN [status |-> "rejected", reason |-> outcome.message]
    ELSE [status |-> "fulfilled", value |-> outcome.value]

NoLevels == [error |-> 0, warning |-> 0, info |-> 0, debug |-> 0, fatal |-> 0]

\* issue.level || 'error'
LevelOf(issue) ==
  IF issue.level = Undefined \/ issue.level = <<"">> THEN "error" ELSE issue.level[1]

\* the counter an issue of this level is added to
Counter(levels, level) == IF level \in DOMAIN levels THEN level ELSE "error"

\* issues.forEach from entry i on; reading the level of a null entry throws,
\* and the catch returns the counters as they stand
RECURSIVE CountLevels(_, _, _)
CountLevels(levels, items, i) ==
  IF i > Len(items) THEN levels
  ELSE IF items[i].type = "null" THEN levels
  ELSE CountLevels([levels EXCEPT ![Counter(levels, LevelOf(items[i]))] = @ + 1],
                   items, i + 1)

calculateIssuesByLevel(issues) ==
  IF issues.type # "array" \/ Len(issues.items) = 0
    THEN NoLevels
    ELSE CountLevels(NoLevels, issues.items, 1)

ListParts == {"projects", "members", "issues", "alertRules", "replays"}
Parts == ListParts \cup {"organization", "eventStats"}

\* x.status === 'fulfilled' ? x.value : default
ValueOr(settled, default) == IF settled.status = "fulfilled" THEN settled.value ELSE default

\* x.value.length is a TypeError when the value is null
LengthThrows(settled) == settled.status = "fulfilled" /\ settled.value.type = "null"

\* x.status === 'fulfilled' ? x.value.length : 0
Total(settled) == IF settled.status = "fulfilled" THEN Len(settled.value.items) ELSE 0

\* the result object of lines 250-277 (projectStats, recentIssues and
\* recentReplays are reshaped by helpers that catch their own errors)
CompiledResult(s) ==
  IF \E part \in ListParts : LengthThrows(s[part])
    THEN Throw("Cannot read properties of null (reading 'length')")
    ELSE Return(
      [organization |-> ValueOr(s.organization, JsonNull),
       projects |-> ValueOr(s.projects, JsonArray(<<>>)),
       members |-> ValueOr(s.members, JsonArray(<<>>)),
       issues |-> ValueOr(s.issues, JsonArray(<<>>)),
       alertRules |-> ValueOr(s.alertRules, JsonArray(<<>>)),
       replays |-> ValueOr(s.replays, JsonArray(<<>>)),
       eventStats |-> ValueOr(s.eventStats, JsonNull),
       metrics |->
         [totalProjects |-> Total(s.projects),
          totalMembers |-> Total(s.members),
          totalIssues |-> Total(s.issues),
          totalAlertRules |-> Total(s.alertRules),
          totalReplays |-> Total(s.replays),
          issuesByLevel |-> calculateIssuesByLevel(ValueOr(s.issues, JsonArray(<<>>)))]])

\* the fallback structure of the outer catch
FallbackResult(message) ==
  [organization |-> JsonNull,
   projects |-> JsonArray(<<>>),
   members |-> JsonArray(<<>>),
   issues |-> JsonArray(<<>>),
   alertRules |-> JsonArray(<<>>),
   replays |-> JsonArray(<<>>),
   eventStats |-> JsonNull,
   metrics |->
     [totalProjects |-> 0, totalMembers |-> 0, totalIssues |-> 0, totalAlertRules |-> 0,
      totalReplays |-> 0, issuesByLevel |-> NoLevels],
   error |-> message]

\* try { ... return result } catch (error) { return fallback }
OuterCatch(outcome) ==
  IF outcome.threw THEN Return(FallbackResult(outcome.message)) ELSE outcome

\* projects.find(p => p.slug === options.project) inside its own try/catch
FoundProject(outcome, slug) ==
  IF outcome.threw \/ outcome.value.type # "array" THEN Undefined
  ELSE LET at == {i \in 1..Len(outcome.value.items) : outcome.value.items[i].slug = slug}
       IN IF at = {} THEN Undefined
          ELSE <<outcome.value.items[CHOOSE i \in at : \A j \in at : i <= j]>>

\* the project option of a call and the answers the provider may give to
\* its requests: failures, null, lists of up to MaxItems entries, and for
\* replays the shapes { data: [...] }, { results: [...] } and {}
MetricsInputs ==
  [project |-> {Undefined, <<"all">>, <<"web">>, <<"ios">>},
   lookup |->
     {Failed(404), Ok(JsonNull),
      Ok(JsonArray(<<[type |-> "object", id |-> 1, slug |-> "web"]>>))},
   organization |-> {Failed(404), Ok([type |-> "object", slug |-> "acme", name |-> "Acme"])},
   projects |->
     {Failed(403), Ok(JsonNull)}
       \cup {Ok(JsonArray([i \in 1..n |->
                             [type |-> "object", id |-> i,
                              slug |-> IF i = 1 THEN "web" ELSE "api"]])) :
               n \in 0..MaxItems},
   members |-> {Failed(403), Ok(JsonNull), Ok(JsonArray(<<[type |-> "object", id |-> 1]>>))},
   issues |->
     {Failed(401), Ok(JsonNull), Ok(JsonArray(<<Issue(<<"warning">>), JsonNull>>))}
       \cup {Ok(JsonArray([i \in 1..n |->
                             IF i % 2 = 1 THEN Issue(<<"fatal">>) ELSE Issue(Undefined)])) :
               n \in 0..MaxItems},
   alertRules |->
     {Failed(500), Ok(JsonNull), Ok(JsonArray(<<[type |-> "object", id |-> 1]>>))},
   replays |->
     {Failed(403), Ok(JsonNull), Ok([type |-> "object"]),
      Ok(JsonArray(<<[type |-> "object", id |-> 1], [type |-> "object", id |-> 2]>>)),
      Ok([type |-> "object", data |-> JsonArray(<<[type |-> "object", id |-> 1]>>)]),
      Ok([type |-> "object", results |-> JsonArray(<<[type |-> "object", id |-> 1]>>)])},
   eventStats |-> {Failed(500), Ok([type |-> "object", start |-> 1, end |-> 2])}]

authVars == <<store, database, reqs, nextState, nextToken, now, nreq, last, lastIssued,
              passed, failedSince, lastCb, sentryOAuthService>>

\* a call of getDashboardMetrics with its options and the provider's answers
MetricsInit ==
  /\ store = [b \in Browsers |-> [present |-> FALSE, data |-> EmptySession]]
  /\ database = SimpleUserStore
  /\ reqs = [r \in Slots |-> Idle]
  /\ nextState = 1
  /\ nextToken = 1
  /\ now = 1
  /\ nreq = 0
  /\ last = NoResponse
  /\ lastIssued = [b \in Browsers |-> Undef]
  /\ passed = [s \in StateIds |-> 0]
  /\ failedSince = [b \in Browsers |-> FALSE]
  /\ lastCb = [b \in Browsers |-> NoQuery]
  /\ sentryOAuthService = Constructed(ServerEnv)
  /\ \E project \in MetricsInputs.project, lookup \in MetricsInputs.lookup,
        organization \in MetricsInputs.organization, projects \in MetricsInputs.projects,
        members \in MetricsInputs.members, issues \in MetricsInputs.issues,
        alertRules \in MetricsInputs.alertRules, replays \in MetricsInputs.replays,
        eventStats \in MetricsInputs.eventStats :
       /\ project \in {Undefined, <<"all">>} => lookup = Failed(404)
       /\ sentryAPI =
            [pc |-> "called",
             options |-> [project |-> project],
             answers |->
               [lookup |-> lookup, organization |-> organization, projects |-> projects,
                members |-> members, issues |-> issues, alertRules |-> alertRules,
                replays |-> replays, eventStats |-> eventStats],
             project |-> Undefined]

\* lines 203-216: the project slug is resolved when one is asked for
ResolveProject ==
  /\ sentryAPI.pc = "called"
  /\ sentryAPI' =
       [pc |-> "resolved",
        options |-> sentryAPI.options,
        answers |-> sentryAPI.answers,
        project |->
          IF sentryAPI.options.project \in {Undefined, <<"">>, <<"all">>}
            THEN Undefined
            ELSE FoundProject(makeRequest(sentryAPI.answers.lookup),
                              sentryAPI.options.project[1])]
  /\ UNCHANGED authVars

\* lines 231-247: the seven requests, each settled
AllSettled ==
  /\ sentryAPI.pc = "resolved"
  /\ sentryAPI' =
       [pc |-> "settled",
        options |-> sentryAPI.options,
        answers |-> sentryAPI.answers,
        project |-> sentryAPI.project,
        settled |->
          [part \in Parts |->
             Settled(IF part = "replays"
                       THEN getReplays(sentryAPI.answers[part])
                       ELSE makeRequest(sentryAPI.answers[part]))]]
  /\ UNCHANGED authVars

\* lines 249-349: the result is compiled and returned, or the fallback is
ReturnMetrics ==
  /\ sentryAPI.pc = "settled"
  /\ sentryAPI' =
       [pc |-> "returned",
        options |-> sentryAPI.options,
        answers |-> sentryAPI.answers,
        project |-> sentryAPI.project,
        settled |-> sentryAPI.settled,
        outcome |-> OuterCatch(CompiledResult(sentryAPI.settled))]
  /\ UNCHANGED authVars

MetricsNext ==
  \/ ResolveProject
  \/ AllSettled
  \/ ReturnMetrics

MetricsSpec == MetricsInit /\ [][MetricsNext]_vars

\* the lists calculateIssuesByLevel is handed: an entry is an issue, whose
\* level is absent, empty, one of the five or another, or it is null
IssueLists ==
  LET entries ==
        {Issue(Undefined), JsonNull}
          \cup {Issue(<<l>>) :
                  l \in {"error", "warning", "info", "debug", "fatal", "critical", ""}}
  IN UNION {[1..n -> entries] : n \in 0..MaxIssues}

LevelsInit ==
  /\ store = [b \in Browsers |-> [present |-> FALSE, data |-> EmptySession]]
  /\ database = SimpleUserStore
  /\ reqs = [r \in Slots |-> Idle]
  /\ nextState = 1
  /\ nextToken = 1
  /\ now = 1
  /\ nreq = 0
  /\ last = NoResponse
  /\ lastIssued = [b \in Browsers |-> Undef]
  /\ passed = [s \in StateIds |-> 0]
  /\ failedSince = [b \in Browsers |-> FALSE]
  /\ lastCb = [b \in Browsers |-> NoQuery]
  /\ sentryOAuthService = Constructed(ServerEnv)
  /\ \E items \in IssueLists :
       sentryAPI = [pc |-> "counting", issues |-> JsonArray(items)]

\* a call of calculateIssuesByLevel
CalculateIssuesByLevel ==
  /\ sentryAPI.pc = "counting"
  /\ sentryAPI' =
       [pc |-> "counted",
        issues |-> sentryAPI.issues,
        outcome |-> Return(calculateIssuesByLevel(sentryAPI.issues))]
  /\ UNCHANGED authVars

LevelsNext == CalculateIssuesByLevel

LevelsSpec == LevelsInit /\ [][LevelsNext]_vars

\* ------------------------------------------------------------- claims
\* the callbacks under way, and the one answered last if any
CallbackAt(r) ==
  [state |-> reqs[r].state, code |-> reqs[r].code, before |-> reqs[r].orig,
   steps |-> reqs[r].steps, sentryUser |-> reqs[r].sentryUser, user |-> reqs[r].user,
   replay |-> reqs[r].replay, latest |-> reqs[r].latest]

CallbackSlots == {r \in Slots : reqs[r].kind = "callback"}

Callbacks == {CallbackAt(r) : r \in CallbackSlots}

\* the received state is missing or differs from the pending one
Mismatch(state, pending) == state = Undef \/ state # pending

CsrfRejected == last.status = "400" /\ last.error = "Invalid state parameter"

InSteps(x, s) == \E i \in 1..Len(x.steps) : x.steps[i] = s

\* C1 as stated: a callback whose state is missing or differs from the pending
\* state stored by beginLogin fails with the CSRF error and the session has no
\* user id afterwards
C1_CsrfFailureLeavesNoUser ==
  (last.kind = "callback" /\ last.before.oauthState # Undef
     /\ Mismatch(last.state, last.before.oauthState))
  => (CsrfRejected /\ last.after.userId = Undef)

\* C1 as amended: such a callback fails with the CSRF error and binds nothing,
\* the session's user id is the one it had before the callback
C1_CsrfFailureBindsNothing ==
  (last.kind = "callback" /\ last.before.oauthState # Undef
     /\ Mismatch(last.state, last.before.oauthState))
  => (CsrfRejected /\ last.after.userId = last.before.userId
      /\ last.steps = <<"csrf">> /\ last.user = NullUser)

C1_Witness ==
  /\ last.kind = "callback" /\ last.before.oauthState # Undef
  /\ last.state # Undef /\ last.state # last.before.oauthState
  /\ CsrfRejected /\ last.before.userId = Undef

\* C2: after a callback has returned, its session holds no pending state,
\* whether the received state matched or not
C2_NoPendingStateAfterCallback ==
  last.kind = "callback" => last.after.oauthState = Undef

\* C3: a callback that repeats the state and code of the callback answered
\* before it on the same session, with no beginLogin in between, fails with
\* the CSRF error
C3_ReplayFailsCsrf ==
  /\ (last.kind = "callback" /\ last.replay) => CsrfRejected
  /\ \A r \in CallbackSlots : ~reqs[r].replay

C3_Witness ==
  /\ last.kind = "callback" /\ last.replay /\ CsrfRejected
  /\ last.state \in StateIds /\ last.code # NoStr
  /\ last.before.userId # Undef

\* C4: a callback received after a failed callback on the same session, with
\* no beginLogin in between, does not succeed
C4_NoSuccessAfterFailure ==
  (last.kind = "callback" /\ last.afterFail) => last.status # "redirect_success"

\* C5: the directory holds at most one record per provider id
C5_OneUserPerProviderId ==
  \A p \in ProviderIds :
    Cardinality({i \in DOMAIN database.users : database.users[i].sentry_id = p}) <= 1

\* C6: the steps of a callback are taken in the order CSRF validation, token
\* exchange, profile resolution, upsert, session binding, each only after the
\* ones before it succeeded, and none after a failure
StepsOrdered(x) ==
  /\ \A i, j \in 1..Len(x.steps) : i < j => StepRank(x.steps[i]) < StepRank(x.steps[j])
  /\ \A i \in 1..Len(x.steps) : StepRank(x.steps[i]) > 0
  /\ InSteps(x, "token") =>
       (InSteps(x, "csrf") /\ ~Mismatch(x.state, x.before.oauthState) /\ x.code # NoStr)
  /\ InSteps(x, "profile") => InSteps(x, "token")
  /\ InSteps(x, "upsert") => (InSteps(x, "token") /\ x.sentryUser \in Profiles)
  /\ InSteps(x, "bind") => (InSteps(x, "upsert") /\ x.user # NullUser)
  /\ x.user # NullUser => InSteps(x, "upsert")

C6_StepsInOrder ==
  /\ \A r \in CallbackSlots : StepsOrdered(CallbackAt(r))
  /\ last.kind = "callback" =>
       /\ StepsOrdered(last)
       /\ last.failedAt \in {"", "csrf", "code", "token", "profile"}
       /\ last.failedAt \in {"csrf", "code"} => last.steps = <<"csrf">>
       /\ last.failedAt = "token" => last.steps = <<"csrf", "token">>
       /\ last.failedAt = "profile" => last.steps = <<"csrf", "token", "profile">>
       /\ last.failedAt # "" => (last.user = NullUser /\ last.after.userId = last.before.userId)
       /\ last.failedAt = "" <=> InSteps(last, "bind")

C6_Witness ==
  /\ last.kind = "callback" /\ last.failedAt = "profile"
  /\ \E c \in Callbacks : InSteps(c, "upsert")

\* C7: at most one callback passes CSRF validation with a given state value
\* and goes on to the token exchange
C7_StateConsumedOnce == \A s \in StateIds : passed[s] <= 1

\* C8: a session object's user id is changed only by a callback that passed
\* CSRF validation, had a code, completed the OAuth flow and the upsert; the
\* store's user id changes only when such a session object is saved or the
\* session is destroyed
BoundByCallback(x) ==
  /\ x.kind = "callback" /\ x.status = "redirect_success"
  /\ ~Mismatch(x.state, x.before.oauthState) /\ x.code # NoStr
  /\ x.steps \in {<<"csrf", "token", "upsert", "bind">>,
                  <<"csrf", "token", "profile", "upsert", "bind">>}
  /\ x.user.id \in DOMAIN database.users
  /\ x.after.userId = x.user.id /\ x.after.sentryId = x.sentryUser.id

C8_Step ==
  /\ \A r \in Slots :
       (reqs[r].pc # "idle" /\ reqs'[r].pc # "idle")
         => reqs'[r].session.userId = reqs[r].session.userId
  /\ \A r \in Slots :
       (reqs[r].pc = "idle" /\ reqs'[r].pc # "idle")
         => reqs'[r].session.userId = LoadSession(store, reqs'[r].sid).userId
  /\ (last' # last /\ last'.after.userId # last'.before.userId) => BoundByCallback(last')
  /\ \A b \in Browsers :
       LoadSession(store', b).userId # LoadSession(store, b).userId
         => /\ last'.sid = b
            /\ \/ ~store'[b].present
               \/ store'[b].data = last'.after

C9_OnlyLatestStatePasses ==
  /\ \A b \in Browsers : LoadSession(store, b).oauthState \in {Undef, lastIssued[b]}
  /\ \A b1, b2 \in Browsers : (b1 # b2 /\ lastIssued[b1] # Undef) => lastIssued[b1] # lastIssued[b2]
  /\ last.kind = "login" =>
       (last.after.oauthState = nextState - 1 /\ last.after.oauthState # last.before.oauthState)
  /\ \A r \in CallbackSlots : reqs[r].state = reqs[r].latest
  /\ (last.kind = "callback" /\ last.failedAt # "csrf") => last.state = last.latest

C9_Witness ==
  /\ last.kind = "callback" /\ last.failedAt = "csrf"
  /\ last.state \in 1..(nextState - 1) /\ last.state # lastIssued[last.sid]
  /\ last.before.oauthState = lastIssued[last.sid] /\ lastIssued[last.sid] # Undef
  /\ \A b \in Browsers \ {last.sid} : lastIssued[b] = Undef

\* C10: the three indexes agree, every record stored by id is the one its
\* provider id and its email look up, and no index holds any other record
C10_IndexesAgree ==
  /\ \A i \in DOMAIN database.users :
       /\ findUserBySentryId(database, database.users[i].sentry_id) = database.users[i]
       /\ findUserByEmail(database, database.users[i].email) = database.users[i]
  /\ \A p \in DOMAIN database.usersBySentryId :
       findUserById(database, database.usersBySentryId[p].id) = database.usersBySentryId[p]
  /\ \A e \in DOMAIN database.usersByEmail :
       findUserById(database, database.usersByEmail[e].id) = database.usersByEmail[e]

\* C11: an upsert that finds the record an earlier upsert of the same profile
\* left returns a record with the same local id, changes only updated_at and
\* the stored token, and adds no record to the directory
SameProfile(user, sentryUser) ==
  /\ user.sentry_id = sentryUser.id /\ user.email = sentryUser.email
  /\ user.name = sentryUser.name /\ user.username = sentryUser.username
  /\ user.avatar_url = AvatarUrl(sentryUser)

C11_Step ==
  \A r \in Slots :
    LET q == reqs[r]
        existing == findUserBySentryId(database, q.sentryUser.id) IN
    (q.pc = "found" /\ reqs'[r].pc = "upserted" /\ q.found
       /\ SameProfile(existing, q.sentryUser))
      => /\ reqs'[r].user.id = existing.id
         /\ reqs'[r].user =
              [existing EXCEPT !.updated_at = now', !.access_token = q.accessToken]
         /\ reqs'[r].user.updated_at > existing.updated_at
         /\ findUserBySentryId(database', q.sentryUser.id) = reqs'[r].user
         /\ findUserById(database', existing.id) = reqs'[r].user
         /\ DOMAIN database'.users = DOMAIN database.users
         /\ database'.nextId = database.nextId
         /\ \A i \in (DOMAIN database.users) \ {existing.id} :
              database'.users[i] = database.users[i]

C11_UpsertTwiceKeepsIdentity == [][C11_Step]_vars

\* the by-email entry is the record as the earlier upsert left it
C11_Witness ==
  \E r \in Slots :
    LET q == reqs[r]
        earlier == findUserByEmail(database, q.user.email) IN
    /\ q.pc = "upserted" /\ q.found
    /\ earlier.id = q.user.id /\ SameProfile(earlier, q.sentryUser)
    /\ earlier.updated_at < q.user.updated_at
    /\ earlier.access_token # q.user.access_token
    /\ Cardinality(DOMAIN database.users) = 1

\* C12: no response body carries an access token field: /api/auth/me sends
\* the record without access_token and otherwise unchanged, /api/demo/stats
\* and /api/protected send no token field
TokenFields == {"access_token", "accessToken"}

C12_NoTokenInResponses ==
  /\ (last.kind = "me" /\ last.status = "200") =>
       /\ last.user # NullUser
       /\ DOMAIN last.body = {"user"}
       /\ DOMAIN last.body.user = (DOMAIN last.user) \ {"access_token"}
       /\ \A f \in DOMAIN last.body.user : last.body.user[f] = last.user[f]
  /\ (last.kind = "stats") =>
       /\ last.status = "200"
       /\ (DOMAIN last.body) \cap TokenFields = {}
       /\ \A u \in last.body.users : (DOMAIN u) \cap TokenFields = {}
       /\ last.body.totalUsers = Cardinality(last.body.users)
  /\ (last.kind = "protected" /\ last.status = "200") =>
       /\ (DOMAIN last.body) \cap TokenFields = {}
       /\ last.body.userId = last.before.userId

C12_Witness ==
  /\ last.kind = "me" /\ last.status = "200"
  /\ last.user.access_token # 0 /\ last.body.user.id = last.user.id
  /\ Cardinality(DOMAIN database.users) = 2

\* C13: every callback that fails is answered with a redirect to the
\* frontend's error page carrying the URL-encoded message
C13_FailuresRedirect ==
  (last.kind = "callback" /\ last.failedAt # "") =>
    /\ last.status = "redirect_error"
    /\ RedirectUrl(last.status, last.error)
         = FrontendUrl \o "/auth/error?message=" \o encodeURIComponent(last.error)

\* C14: the URL of the error redirect does not include the body of the
\* provider's HTTP response
C14_NoProviderBodyInUrl ==
  (last.kind = "callback" /\ last.status = "redirect_error" /\ last.answer.text # "") =>
    ~Includes(RedirectUrl(last.status, last.error), encodeURIComponent(last.answer.text))

\* C15: every record of the directory holds an access token
C15_TokenPresent ==
  \A i \in DOMAIN database.users : database.users[i].access_token # 0

\* C16: getUserInfo asks the endpoints in their order and returns the
\* normalized data of the first answer that is an HTTP success with an id and
\* an email; the answers before it were none of that and leave no trace in
\* the result
Usable(answer) ==
  ~answer.thrown /\ answer.ok /\ answer.data.id # "" /\ answer.data.email # ""

AskedInOrder(x) ==
  /\ Len(x.urls) = x.endpoint
  /\ \A i \in 1..Len(x.urls) : x.urls[i] = possibleEndpoints[i]

ResolvedByGetUserInfo(x) ==
  x.kind = "callback" /\ InSteps(x, "profile") /\ x.sentryUser # NoProfile

C16_Resolved(x) ==
  /\ (x.kind = "callback" /\ InSteps(x, "profile")) =>
       (AskedInOrder(x) /\ x.endpoint \in 1..Len(possibleEndpoints)
        /\ Cardinality(x.skipped) <= x.endpoint)
  /\ ResolvedByGetUserInfo(x) =>
       /\ Usable(x.answer)
       /\ \A a \in x.skipped : ~Usable(a)
       /\ x.sentryUser.id = x.answer.data.id
       /\ x.sentryUser.email = x.answer.data.email
       /\ x.sentryUser.username = x.answer.data.username
       /\ x.sentryUser.avatar = x.answer.data.avatar
       /\ x.answer.data.name # "" => x.sentryUser.name = x.answer.data.name
       /\ (x.answer.data.name = "" /\ x.answer.data.username # "") =>
            x.sentryUser.name = x.answer.data.username
       /\ (x.answer.data.name = "" /\ x.answer.data.username = ""
             /\ x.answer.data.email = "a@b.com") => x.sentryUser.name = "a"

C16_FirstUsableAnswer ==
  /\ \A r \in Slots : C16_Resolved(reqs[r])
  /\ C16_Resolved(last)

\* the first two endpoints answer 404 and 401, the third {id: "42", email: "a@b.com"}
C16_Witness ==
  \E r \in Slots :
    /\ ResolvedByGetUserInfo(reqs[r])
    /\ reqs[r].endpoint = 3
    /\ reqs[r].skipped = {HttpError("404", "Not Found"), HttpError("401", "Invalid token")}
    /\ reqs[r].sentryUser =
         [id |-> "42", email |-> "a@b.com", name |-> "a", username |-> "", avatar |-> ""]

\* C17: when no endpoint gives a usable answer, getUserInfo fails with the
\* error of the endpoint asked last, whatever the access token, a missing
\* one included
C17_LastErrorThrown ==
  (last.kind = "callback" /\ last.failedAt = "profile") =>
    /\ last.endpoint = Len(possibleEndpoints)
    /\ ~Usable(last.answer)
    /\ last.error = EndpointError(last.answer, possibleEndpoints[last.endpoint])

\* C18: a token response with an object holding id and email under user,
\* user_info or profile makes completeOAuthFlow return that object's data
\* without asking any profile endpoint; otherwise getUserInfo is called with
\* the token of the response
HasIdAndEmail(obj) == obj.id # "" /\ obj.email # ""

SomeEmbeddedProfile(tokenData) ==
  \/ HasIdAndEmail(tokenData.user)
  \/ HasIdAndEmail(tokenData.user_info)
  \/ HasIdAndEmail(tokenData.profile)

C18_Flow(x) ==
  (x.kind = "callback" /\ x.answer.ok /\ InSteps(x, "token")) =>
    IF SomeEmbeddedProfile(x.tokenData)
    THEN /\ x.endpoint = 0 /\ ~InSteps(x, "profile")
         /\ \E f \in {"user", "user_info", "profile"} :
              /\ HasIdAndEmail(x.tokenData[f])
              /\ x.sentryUser.id = x.tokenData[f].id
              /\ x.sentryUser.email = x.tokenData[f].email
    ELSE /\ x.endpoint >= 1 /\ InSteps(x, "profile")
         /\ x.accessToken = x.tokenData.access_token

C18_EmbeddedProfileUsed ==
  /\ \A r \in Slots : C18_Flow(reqs[r])
  /\ C18_Flow(last)

MeOnMissingUser(x) == x.kind = "me" /\ requireAuth(x.before) /\ x.user = NullUser

C21_Step ==
  /\ last'.kind = "logout" =>
       (last'.status = "200" /\ ~requireAuth(LoadSession(store', last'.sid)))
  /\ \A b \in Browsers :
       (~requireAuth(LoadSession(store, b)) /\ requireAuth(LoadSession(store', b)))
         => (last'.kind = "callback" /\ last'.sid = b /\ last'.status = "redirect_success")
  /\ (last'.kind = "me" /\ last'.status = "200") => requireAuth(last'.before)

C21_LoggedOutUntilCallback == [][C21_Step]_vars

\* C22: a callback with the pending state and a code, whose exchange returned
\* token T and whose profile has a provider id without a record, creates a
\* record under a new local id with that provider id, email and name and
\* with T, and binds the session to it; /api/auth/me on a bound session then
\* answers 200 with the record of that id, the token left out
C22_Step ==
  /\ \A r \in Slots :
       LET q == reqs[r]
           user == reqs'[r].user IN
       (q.pc = "found" /\ reqs'[r].pc = "upserted" /\ ~q.found) =>
         /\ q.state = q.orig.oauthState /\ q.state # Undef /\ q.code # NoStr
         /\ q.accessToken = q.tokenData.access_token /\ q.accessToken # 0
         /\ user.id \notin DOMAIN database.users
         /\ findUserById(database', user.id) = user
         /\ findUserBySentryId(database', q.sentryUser.id) = user
         /\ user.sentry_id = q.sentryUser.id /\ user.email = q.sentryUser.email
         /\ user.name = q.sentryUser.name /\ user.access_token = q.accessToken
         /\ user.created_at = now' /\ user.updated_at = now'
  /\ (last'.kind = "callback" /\ last'.status = "redirect_success") =>
       /\ last'.user # NullUser
       /\ last'.after.userId = last'.user.id
       /\ last'.after.sentryId = last'.user.sentry_id
       /\ last'.after.oauthState = Undef
       /\ LoadSession(store', last'.sid) = last'.after
  /\ (last'.kind = "me" /\ requireAuth(last'.before)) =>
       /\ last'.status = "200"
       /\ last'.user.id = last'.before.userId
       /\ last'.user.sentry_id = last'.before.sentryId
       /\ last'.body = [user |-> [f \in (DOMAIN last'.user) \ {"access_token"} |-> last'.user[f]]]

C22_EndToEnd == [][C22_Step]_vars

\* login, callback, /api/auth/me: the first record, as the callback created it
C22_Witness ==
  /\ nreq = 3 /\ last.kind = "me" /\ last.status = "200" /\ last.sid = "b1"
  /\ last.before = [oauthState |-> Undef, userId |-> 1, sentryId |-> "u1"]
  /\ database.users[1].access_token = 1
  /\ last.body.user =
       [id |-> 1, sentry_id |-> "u1", email |-> "a@x.com", name |-> "A", username |-> "a",
        avatar_url |-> "av1", created_at |-> 2, updated_at |-> 2]

\* reading a URL back, as new URL(text) and its searchParams do: the text
\* before the first "?", and the decoded value of the first parameter of a
\* name, undefined when there is none
IndexOf(s, c) ==
  LET at == {i \in 1..Len(s) : SubSeq(s, i, i) = c} IN
  IF at = {} THEN 0 ELSE CHOOSE i \in at : \A j \in at : i <= j

RECURSIVE SplitOn(_, _)
SplitOn(s, c) ==
  IF IndexOf(s, c) = 0 THEN <<s>>
  ELSE <<SubSeq(s, 1, IndexOf(s, c) - 1)>> \o SplitOn(SubSeq(s, IndexOf(s, c) + 1, Len(s)), c)

DecodeByte(hex) ==
  CASE hex = "3A" -> ":" [] hex = "2F" -> "/" [] hex = "26" -> "&" [] hex = "3D" -> "="
    [] hex = "2B" -> "+" [] hex = "25" -> "%" [] hex = "3F" -> "?" [] hex = "40" -> "@"
    [] hex = "23" -> "#" [] hex = "20" -> " "
    [] OTHER -> "%" \o hex

RECURSIVE FormDecode(_)
FormDecode(s) ==
  IF s = "" THEN ""
  ELSE IF SubSeq(s, 1, 1) = "+" THEN " " \o FormDecode(SubSeq(s, 2, Len(s)))
  ELSE IF SubSeq(s, 1, 1) = "%" /\ Len(s) >= 3
       THEN DecodeByte(SubSeq(s, 2, 3)) \o FormDecode(SubSeq(s, 4, Len(s)))
       ELSE SubSeq(s, 1, 1) \o FormDecode(SubSeq(s, 2, Len(s)))

UrlTarget(url) == IF IndexOf(url, "?") = 0 THEN url ELSE SubSeq(url, 1, IndexOf(url, "?") - 1)
UrlQuery(url) ==
  IF IndexOf(url, "?") = 0 THEN "" ELSE SubSeq(url, IndexOf(url, "?") + 1, Len(url))

ParsePair(text) ==
  IF IndexOf(text, "=") = 0 THEN <<FormDecode(text), "">>
  ELSE <<FormDecode(SubSeq(text, 1, IndexOf(text, "=") - 1)),
         FormDecode(SubSeq(text, IndexOf(text, "=") + 1, Len(text)))>>

ParseQuery(query) ==
  LET parts == SelectSeq(SplitOn(query, "&"), LAMBDA part : part # "") IN
  [i \in 1..Len(parts) |-> ParsePair(parts[i])]

SearchParam(query, name) ==
  LET pairs == ParseQuery(query)
      at == {i \in 1..Len(pairs) : pairs[i][1] = name} IN
  IF at = {} THEN Undefined ELSE <<pairs[CHOOSE i \in at : \A j \in at : i <= j][2]>>

AuthorizeRequest == sentryOAuthService.request.op = "authorize"
AuthorizeQuery == UrlQuery(sentryOAuthService.request.url)

\* what C23 says of everything but the state
UrlMatchesConfig ==
  /\ UrlTarget(sentryOAuthService.request.url)
       = sentryOAuthService.config.baseUrl \o "/oauth/authorize/"
  /\ SearchParam(AuthorizeQuery, "response_type") = <<"code">>
  /\ SearchParam(AuthorizeQuery, "client_id") = sentryOAuthService.config.clientId
  /\ SearchParam(AuthorizeQuery, "scope")
       = <<"org:read project:read team:read member:read event:read">>

\* C23 as stated: the URL getAuthorizationUrl returns targets
\* {baseUrl}/oauth/authorize/ and, parsed, has response_type=code, the
\* configured client_id and redirect_uri, the fixed scope list and a state
\* parameter equal to the argument
C23_UrlMatchesEveryArgument ==
  AuthorizeRequest =>
    /\ UrlMatchesConfig
    /\ SearchParam(AuthorizeQuery, "redirect_uri") = sentryOAuthService.config.redirectUri
    /\ SearchParam(AuthorizeQuery, "state") = sentryOAuthService.request.arg

\* C23 as amended: the same for a non-empty state argument and a configured
\* redirect URI; an empty or missing argument gives a URL without a state
\* parameter, a missing redirect URI the text "undefined"; the URL has no
\* other parameter and the call changes nothing but the request built
C23_Url ==
  AuthorizeRequest =>
    LET config == sentryOAuthService.config
        arg == sentryOAuthService.request.arg
        pairs == ParseQuery(AuthorizeQuery)
        names == {pairs[i][1] : i \in 1..Len(pairs)} IN
    /\ UrlMatchesConfig
    /\ SearchParam(AuthorizeQuery, "redirect_uri")
         = (IF config.redirectUri = Undefined THEN <<"undefined">> ELSE config.redirectUri)
    /\ SearchParam(AuthorizeQuery, "state") = (IF Falsy(arg) THEN Undefined ELSE arg)
    /\ names = {"response_type", "client_id", "redirect_uri", "scope"}
                  \cup (IF Falsy(arg) THEN {} ELSE {"state"})
    /\ Len(pairs) = Cardinality(names)

C23_Frame ==
  sentryOAuthService'.request # sentryOAuthService.request =>
    /\ sentryOAuthService' = [sentryOAuthService EXCEPT !.request = sentryOAuthService'.request]
    /\ UNCHANGED serverVars

C23_UrlMatchesArgument == []C23_Url /\ [][C23_Frame]_vars

\* a state with a space, "&" and "=" comes back as it went in
C23_Witness ==
  /\ AuthorizeRequest
  /\ sentryOAuthService.request.arg = <<"a b&c=d">>
  /\ SearchParam(AuthorizeQuery, "state") = <<"a b&c=d">>
  /\ sentryOAuthService.config.clientId = <<"id&2">>
  /\ sentryOAuthService.config.redirectUri # Undefined

\* C24: every record is stored under its own local id, below the counter;
\* a new record gets the counter's value, which is above every id in use,
\* and the counter moves past it; a local id stays with the record it was
\* given to (same provider id, same creation time), in every index
SameRecord(u, v) == u.id = v.id /\ u.sentry_id = v.sentry_id /\ u.created_at = v.created_at

C24_Ids ==
  /\ database.nextId >= 1
  /\ \A i \in DOMAIN database.users : database.users[i].id = i /\ i < database.nextId
  /\ \A p \in DOMAIN database.usersBySentryId :
       LET u == database.usersBySentryId[p] IN
       u.id \in DOMAIN database.users /\ SameRecord(u, database.users[u.id])
  /\ \A e \in DOMAIN database.usersByEmail :
       LET u == database.usersByEmail[e] IN
       u.id \in DOMAIN database.users /\ SameRecord(u, database.users[u.id])

C24_Step ==
  /\ database'.nextId >= database.nextId
  /\ \A i \in DOMAIN database.users :
       i \in DOMAIN database'.users /\ SameRecord(database'.users[i], database.users[i])
  /\ \A i \in (DOMAIN database'.users) \ (DOMAIN database.users) :
       /\ i = database.nextId /\ database'.nextId = i + 1
       /\ \A j \in DOMAIN database.users : j < i

C24_LocalIdsIncrease == []C24_Ids /\ [][C24_Step]_vars

\* two users, created one after the other by callbacks of two browsers
C24_Witness ==
  /\ DOMAIN database.users = {1, 2} /\ database.nextId = 3
  /\ database.users[1].sentry_id # database.users[2].sentry_id
  /\ database.users[1].created_at < database.users[2].created_at
  /\ store["b1"].data.userId = 1 /\ store["b2"].data.userId = 2

\* C25: a callback whose lookup found a record for the provider id replaces
\* email, name, username, avatar, access token and updated_at with the fresh
\* values and keeps id, sentry_id and created_at; when the email changed,
\* the old email no longer leads to the record and the new email leads to
\* the updated record
C25_Step ==
  \A r \in Slots :
    LET q == reqs[r]
        existing == findUserBySentryId(database, q.sentryUser.id)
        updated == findUserById(database', existing.id) IN
    (q.pc = "found" /\ reqs'[r].pc = "upserted" /\ q.found)
      => /\ existing # NullUser
         /\ updated.id = existing.id
         /\ updated.sentry_id = existing.sentry_id
         /\ updated.created_at = existing.created_at
         /\ updated.email = q.sentryUser.email
         /\ updated.name = q.sentryUser.name
         /\ updated.username = q.sentryUser.username
         /\ updated.avatar_url = q.sentryUser.avatar
         /\ updated.access_token = q.accessToken
         /\ updated.updated_at = now' /\ now' > existing.updated_at
         /\ reqs'[r].user = updated
         /\ findUserBySentryId(database', q.sentryUser.id) = updated
         /\ existing.email # q.sentryUser.email
              => /\ findUserByEmail(database', existing.email).id # existing.id
                 /\ findUserByEmail(database', q.sentryUser.email) = updated

C25_UpdateReplacesMutableFields == [][C25_Step]_vars

\* user u1 came back with a new email and a new name
C25_Witness ==
  \E r \in Slots :
    LET q == reqs[r] IN
    /\ q.pc = "upserted" /\ q.found
    /\ q.user.id = 1 /\ q.user.sentry_id = "u1"
    /\ q.user.email = "b@x.com" /\ q.user.name = "A2"
    /\ q.user.created_at < q.user.updated_at
    /\ findUserByEmail(database, "a@x.com") = NullUser
    /\ findUserByEmail(database, "b@x.com") = q.user
    /\ findUserById(database, 1) = q.user

\* C26: a callback whose state matches the pending one and whose code is
\* absent is answered with the missing-code error; no token or profile
\* request was sent, the directory is as it was, the session is bound to
\* the user it was bound to before and its pending state is gone, in the
\* request's session and in the store
C26_Case(x) ==
  x.kind = "callback" /\ x.code = NoStr /\ CsrfValid(x.state, x.before)

C26_Answer ==
  C26_Case(last) =>
    /\ last.status = "400" /\ last.error = "Authorization code not provided"
    /\ last.failedAt = "code"
    /\ last.steps = <<"csrf">>
    /\ last.posts = 0 /\ last.endpoint = 0 /\ last.urls = <<>>
    /\ last.user = NullUser /\ last.accessToken = 0
    /\ last.after.userId = last.before.userId
    /\ last.after.sentryId = last.before.sentryId
    /\ last.after.oauthState = Undef

C26_Frame ==
  (last' # last /\ C26_Case(last')) =>
    /\ database' = database
    /\ nextToken' = nextToken
    /\ reqs' = reqs
    /\ store'[last'.sid].present
    /\ store'[last'.sid].data = [last'.before EXCEPT !.oauthState = Undef]
    /\ \A b \in DOMAIN store : b # last'.sid => store'[b] = store[b]

C26_MissingCode == []C26_Answer /\ [][C26_Frame]_vars

\* a logged-in browser started a login and came back without a code
C26_Witness ==
  /\ C26_Case(last) /\ last.failedAt = "code"
  /\ last.before.userId = 1 /\ last.after.userId = 1
  /\ store[last.sid].data.oauthState = Undef
  /\ store[last.sid].data.userId = 1
  /\ DOMAIN database.users = {1}

\* C27: the name of the normalized profile is the provider's name when it
\* has one, otherwise the username when it has one, otherwise the part of
\* the email before the first "@"; for the profile a profile endpoint sent
\* and for the profile that came inside the token response
LocalPart(email, part) ==
  \E i \in 1..Len(email) :
    /\ SubSeq(email, i, i) = "@"
    /\ \A j \in 1..(i - 1) : SubSeq(email, j, j) # "@"
    /\ part = SubSeq(email, 1, i - 1)

C27_Named(source, normalized) ==
  /\ source.name # "" => normalized.name = source.name
  /\ (source.name = "" /\ source.username # "") => normalized.name = source.username
  /\ (source.name = "" /\ source.username = "") => LocalPart(source.email, normalized.name)

\* the object the profile of a request was made from
C27_Source(x) ==
  IF InSteps(x, "profile") THEN x.answer.data ELSE EmbeddedInfo(x.tokenData)

C27_NameDefault ==
  /\ \A r \in Slots :
       reqs[r].pc \in {"found", "upserted"}
         => C27_Named(C27_Source(reqs[r]), reqs[r].sentryUser)
  /\ (last.kind = "callback" /\ last.status = "redirect_success")
       => /\ C27_Named(C27_Source(last), last.sentryUser)
          /\ last.user.name = last.sentryUser.name

\* embedded profile with neither name nor username: the record is named
\* after the email's local part
C27_Witness ==
  /\ last.kind = "callback" /\ last.status = "redirect_success"
  /\ ~InSteps(last, "profile")
  /\ last.tokenData.user.name = "" /\ last.tokenData.user.username = ""
  /\ last.tokenData.user.email = "a@b.com"
  /\ last.sentryUser.name = "a"
  /\ \E i \in DOMAIN database.users : database.users[i].name = "a"

\* C28: the constructor fails with the configuration error exactly when the
\* client id or the client secret is missing from the environment; a
\* service that was constructed holds both, stays constructed with the same
\* configuration through every later call, and each request it builds
\* carries the credentials it was constructed with
Absent(v) == v \in {Undefined, <<"">>}

C28_Construction ==
  LET svc == sentryOAuthService
      missing == Absent(svc.env.SENTRY_OAUTH_CLIENT_ID)
                   \/ Absent(svc.env.SENTRY_OAUTH_CLIENT_SECRET) IN
  /\ svc.status = "failed" => (missing /\ svc.error = ConfigurationError)
  /\ svc.status = "ready"
       => /\ ~missing /\ svc.error = ""
          /\ svc.config.clientId = svc.env.SENTRY_OAUTH_CLIENT_ID
          /\ svc.config.clientSecret = svc.env.SENTRY_OAUTH_CLIENT_SECRET
  /\ svc.request # NoRequest
       => /\ svc.status = "ready"
          /\ svc.request.op = "authorize"
               => SearchParam(UrlQuery(svc.request.url), "client_id") = svc.config.clientId
          /\ svc.request.op = "token"
               => /\ SearchParam(svc.request.body, "client_id") = svc.config.clientId
                  /\ SearchParam(svc.request.body, "client_secret") = svc.config.clientSecret

C28_Later ==
  /\ sentryOAuthService.status = "loading"
       => sentryOAuthService'.status \in {"loading", "ready", "failed"}
  /\ sentryOAuthService.status = "ready"
       => /\ sentryOAuthService'.status = "ready"
          /\ sentryOAuthService'.config = sentryOAuthService.config
          /\ sentryOAuthService'.error = ""
  /\ sentryOAuthService.status = "failed" => sentryOAuthService' = sentryOAuthService

C28_CredentialsCheckedOnce == []C28_Construction /\ [][C28_Later]_vars

\* with the id set and the secret not, construction failed and nothing was sent
C28_Witness ==
  /\ sentryOAuthService.status = "failed"
  /\ sentryOAuthService.error = ConfigurationError
  /\ sentryOAuthService.env.SENTRY_OAUTH_CLIENT_ID = <<"client-1">>
  /\ sentryOAuthService.env.SENTRY_OAUTH_CLIENT_SECRET = Undefined
  /\ sentryOAuthService.request = NoRequest

\* C29: the login flow uses PKCE: the authorization URL carries a code
\* challenge and the token request the code verifier
C29_Pkce ==
  LET request == sentryOAuthService.request IN
  /\ request.op = "authorize"
       => /\ SearchParam(UrlQuery(request.url), "code_challenge") # Undefined
          /\ SearchParam(UrlQuery(request.url), "code_challenge_method") # Undefined
  /\ request.op = "token" => SearchParam(request.body, "code_verifier") # Undefined

\* C30: when a callback is answered whose session was destroyed by a logout
\* while the callback waited for the provider, the stored session has no
\* user id after the answer
C30_Step ==
  \A r \in Slots :
    LET q == reqs[r] IN
    (q.kind = "callback" /\ q.pc \in {"exchange", "userinfo", "found", "upserted"}
       /\ reqs'[r] = Idle /\ ~store[q.sid].present)
      => ~requireAuth(LoadSession(store', q.sid))

C30_LogoutStaysLoggedOut == [][C30_Step]_vars

\* C31: a session with a user id, stored or held by a request under way,
\* names a record of the directory whose sentry_id is the session's
\* sentryId, and a session without a user id has no sentryId; an answer
\* whose session differs in one of the two fields from the session the
\* request started with is a successful callback's, and it set both from
\* the record it wrote
C31_Bound(sess) ==
  IF requireAuth(sess)
  THEN /\ sess.userId \in DOMAIN database.users
       /\ database.users[sess.userId].sentry_id = sess.sentryId
       /\ sess.sentryId # NoStr
  ELSE sess.sentryId = NoStr

C31_Sessions ==
  /\ \A b \in Browsers : C31_Bound(LoadSession(store, b))
  /\ \A r \in Slots : C31_Bound(reqs[r].session) /\ C31_Bound(reqs[r].orig)

C31_SetTogether ==
  (last' # last /\ (last'.after.userId # last'.before.userId
                      \/ last'.after.sentryId # last'.before.sentryId))
    => /\ last'.kind = "callback" /\ last'.status = "redirect_success"
       /\ last'.after.userId = last'.user.id
       /\ last'.after.sentryId = last'.user.sentry_id
       /\ last'.user.sentry_id = last'.sentryUser.id
       /\ findUserById(database', last'.user.id).sentry_id = last'.sentryUser.id

C31_BoundUserExists == []C31_Sessions /\ [][C31_SetTogether]_vars

\* a browser logged in as u1 logged in again as u2
C31_Witness ==
  /\ last.kind = "callback" /\ last.status = "redirect_success"
  /\ last.before.userId = 1 /\ last.before.sentryId = "u1"
  /\ last.after.userId = 2 /\ last.after.sentryId = "u2"
  /\ store[last.sid].data = last.after
  /\ database.users[2].sentry_id = "u2"

\* C32: the directory changes only in the upsert step of a callback that
\* passed the state check, had a code and got a profile from the provider;
\* records in it stay, under their ids, and the counter never goes back;
\* the step that answers a login, a logout, /api/auth/me, a protected or
\* dashboard route, the stats route or a failed callback leaves the
\* directory as it was, and a failed callback never reached the upsert
C32_Writer(r) ==
  LET q == reqs[r] IN
  /\ q.kind = "callback" /\ q.pc = "found" /\ reqs'[r].pc = "upserted"
  /\ CsrfValid(q.state, q.orig) /\ q.code # NoStr
  /\ q.steps[1] = "csrf" /\ q.steps[2] = "token"
  /\ q.sentryUser.id # "" /\ q.sentryUser.email # ""
  /\ \A o \in Slots \ {r} : reqs'[o] = reqs[o]
  /\ last' = last

C32_Step ==
  /\ database' # database => \E r \in Slots : C32_Writer(r)
  /\ \A i \in DOMAIN database.users :
       i \in DOMAIN database'.users /\ SameRecord(database.users[i], database'.users[i])
  /\ database'.nextId >= database.nextId
  /\ last' # last =>
       /\ database' = database
       /\ (last'.kind = "callback" /\ last'.failedAt # "")
            => (~InSteps(last', "upsert") /\ last'.user = NullUser)
       /\ last'.kind \in {"login", "logout", "me", "protected", "orgs", "stats"}
            => (last'.steps = <<>> /\ last'.sentryUser = NoProfile)

C32_OnlyCallbackWrites == [][C32_Step]_vars

\* the user logged out and the record is where the callback put it
C32_Witness ==
  /\ last.kind = "logout" /\ last.before.userId = 1
  /\ ~store[last.sid].present
  /\ DOMAIN database.users = {1} /\ database.nextId = 2
  /\ findUserBySentryId(database, last.before.sentryId) = database.users[1]

\* C33: getUserInfo asks each of the six endpoints at most once, in the
\* list's order and never one again; it asks the next endpoint only after
\* an answer that was not valid and none after a valid one; and when every
\* request it awaits returns or throws, it ends with a profile or with an
\* error
C33_Valid(answer) ==
  ~answer.thrown /\ answer.ok /\ answer.data.id # "" /\ answer.data.email # ""

C33_Asked(x) ==
  InSteps(x, "profile") =>
    /\ Len(x.urls) \in 1..6
    /\ \A i \in 1..Len(x.urls) : x.urls[i] = possibleEndpoints[i]
    /\ \A i, j \in 1..Len(x.urls) : i # j => x.urls[i] # x.urls[j]
    /\ \A a \in x.skipped : ~C33_Valid(a)
    /\ Cardinality(x.skipped) < Len(x.urls) \/ x.lastError # ""

C33_Requests ==
  /\ \A r \in Slots :
       /\ C33_Asked(reqs[r])
       /\ (reqs[r].pc \in {"found", "upserted"} /\ InSteps(reqs[r], "profile"))
            => C33_Valid(reqs[r].answer)
  /\ C33_Asked(last)
  /\ (last.kind = "callback" /\ last.failedAt = "profile")
       => (Len(last.urls) = 6 /\ ~C33_Valid(last.answer) /\ last.error # "")

C33_OneMore ==
  \A r \in Slots :
    reqs'[r].urls # reqs[r].urls =>
      \/ reqs'[r] = Idle
      \/ /\ reqs[r].pc = "exchange" /\ reqs'[r].urls = <<possibleEndpoints[1]>>
      \/ /\ reqs[r].pc = "userinfo" /\ reqs'[r].pc = "userinfo"
         /\ ~C33_Valid(reqs'[r].answer)
         /\ reqs'[r].urls = Append(reqs[r].urls, possibleEndpoints[Len(reqs[r].urls) + 1])

C33_Ended(r) ==
  \/ reqs[r].pc = "found" /\ reqs[r].sentryUser # NoProfile
  \/ reqs[r].pc = "idle" /\ last.kind = "callback" /\ last.failedAt = "profile"

C33_GetUserInfoTerminates ==
  /\ []C33_Requests
  /\ [][C33_OneMore]_vars
  /\ \A r \in Slots : (reqs[r].pc = "userinfo") ~> C33_Ended(r)

\* five endpoints failed and the sixth gave the profile
C33_Witness ==
  \E r \in Slots :
    /\ reqs[r].pc = "found" /\ InSteps(reqs[r], "profile")
    /\ reqs[r].urls = possibleEndpoints
    /\ C33_Valid(reqs[r].answer)
    /\ reqs[r].sentryUser.id = reqs[r].answer.data.id

\* C34: /api/auth/me, /api/protected and the dashboard route answer a
\* request whose session has no user id with 401 "Authentication required"
\* in the step that received it, with no directory lookup and no provider
\* request; the dashboard route answers 401 in the same way when the
\* session's user has no record or the record has no access token, and a
\* provider request is under way only for a record with a token
Guarded == {"me", "protected", "orgs"}

C34_Unbound(x) == x.kind \in Guarded /\ x.before.userId = Undef

C34_NoToken(x) ==
  /\ x.kind = "orgs" /\ x.before.userId # Undef
  /\ \/ x.before.userId \notin DOMAIN database.users
     \/ database.users[x.before.userId].access_token = 0

C34_Answers ==
  /\ C34_Unbound(last) =>
       /\ last.status = "401" /\ last.error = "Authentication required"
       /\ last.user = NullUser /\ last.body = <<>>
  /\ C34_NoToken(last) =>
       /\ last.status = "401" /\ last.error = "No Sentry access token found"
       /\ last.user = NullUser /\ last.body = <<>>
  /\ \A r \in Slots :
       /\ reqs[r].pc = "me_found" => reqs[r].orig.userId # Undef
       /\ reqs[r].pc = "orgs_api" =>
            /\ reqs[r].orig.userId # Undef
            /\ reqs[r].user.id = reqs[r].orig.userId
            /\ reqs[r].user # NullUser /\ reqs[r].user.access_token # 0

C34_AtOnce ==
  (last' # last /\ (C34_Unbound(last') \/ C34_NoToken(last'))) =>
    /\ nreq' = nreq + 1
    /\ reqs' = reqs
    /\ database' = database
    /\ store' = store

C34_GuardedRoutesRefuse == []C34_Answers /\ [][C34_AtOnce]_vars

\* the dashboard asked for a user whose record holds no token
C34_Witness ==
  /\ last.kind = "orgs" /\ last.status = "401"
  /\ last.error = "No Sentry access token found"
  /\ last.before.userId = 1
  /\ findUserById(database, 1).sentry_id = last.before.sentryId
  /\ findUserById(database, 1).access_token = 0
  /\ \A r \in Slots : reqs[r].pc # "orgs_api"

\* what a part of the result is when its request failed, and its total in metrics
DefaultOf(part) == IF part \in ListParts THEN JsonArray(<<>>) ELSE JsonNull
TotalOf(metrics, part) ==
  CASE part = "projects" -> metrics.totalProjects
    [] part = "members" -> metrics.totalMembers
    [] part = "issues" -> metrics.totalIssues
    [] part = "alertRules" -> metrics.totalAlertRules
    [] part = "replays" -> metrics.totalReplays

C35_Returned == sentryAPI.pc = "returned"
C35_Failed(part) == sentryAPI.settled[part].status = "rejected"
\* the request succeeded and fetched a value, not null
C35_Fetched(part) ==
  /\ sentryAPI.settled[part].status = "fulfilled"
  /\ sentryAPI.settled[part].value # JsonNull
C35_PartByPart(result) ==
  /\ \A part \in Parts :
       /\ C35_Failed(part) => result[part] = DefaultOf(part)
       /\ C35_Fetched(part) => result[part] = sentryAPI.settled[part].value
  /\ \A part \in ListParts :
       /\ result[part].type = "array"
       /\ TotalOf(result.metrics, part) = Len(result[part].items)

\* C35: getDashboardMetrics never throws, and for every combination of success
\* and failure of its seven requests each failed part of the result has its
\* default (null for organization and eventStats, the empty list otherwise),
\* each succeeded part has the fetched value, and every total in metrics
\* equals the length of the corresponding returned list.
C35_MetricsPartByPart ==
  C35_Returned =>
    /\ ~sentryAPI.outcome.threw
    /\ C35_PartByPart(sentryAPI.outcome.value)

C36_Counted == sentryAPI.pc = "counted"
C36_Sum(levels) == levels.error + levels.warning + levels.info + levels.debug + levels.fatal
\* the issues of the list: its entries that are objects
C36_Issues ==
  {i \in 1..Len(sentryAPI.issues.items) : sentryAPI.issues.items[i].type = "object"}

\* C36: calculateIssuesByLevel conserves the count: for every list of issues
\* the five level counters (error, warning, info, debug, fatal) sum to the
\* number of issues, an issue whose level is missing or not one of the five
\* being counted under error.
C36_CountConserved ==
  C36_Counted =>
    /\ ~sentryAPI.outcome.threw
    /\ C36_Sum(sentryAPI.outcome.value) = Cardinality(C36_Issues)
    /\ sentryAPI.outcome.value.error =
         Cardinality({i \in C36_Issues :
                        \A l \in {"warning", "info", "debug", "fatal"} :
                          sentryAPI.issues.items[i].level # <<l>>})

====
